---- MODULE Spec2Model ----
(***************************************************************************)
(* A model of the zenin-limiter rate-limiting engine: the fixed-window     *)
(* store (record map, expiry min-heap, LRU list, promise lock), the        *)
(* sliding-window and token-bucket strategies, and the RateLimiter that    *)
(* wraps one strategy and keeps the aggregate counters.                    *)
(*                                                                         *)
(* Times are epoch milliseconds.  Token balances are kept exactly, as the  *)
(* integer tokens * windowMs (the code keeps an IEEE double).              *)
(***************************************************************************)
EXTENDS Integers, Sequences, FiniteSets, TLC

(***************************************************************************)
(* Bounds of the model and the inputs that are enumerated.                 *)
(***************************************************************************)
MaxTicks == 2          \* the clock advances at most this many times
MaxCalls == 3          \* decisions issued in one behaviour
MaxInFlight == 3       \* RateLimiter.isAllowed calls that may overlap
MaxLruCalls == 5       \* decisions issued in one behaviour of SpecLru
MaxResets == 1         \* RateLimiter.reset calls in one behaviour
MaxOtherCalls == 2     \* operations through the second strategy instance
MaxReclaimCalls == 3   \* decisions issued in one behaviour of SpecReclaim
MaxSweepTicks == 3     \* the clock advances at most this many times in SpecSweep
MaxProbedCalls == 5    \* decisions issued in one behaviour of SpecReadOnly
MaxGetStates == 1      \* getState calls in one behaviour of SpecReadOnly
MaxStoreCalls == 3     \* decisions issued in one behaviour of SpecStore
MaxGhostCalls == 3     \* decisions issued in one behaviour of SpecGhost
MaxFifoCalls == 5      \* decisions issued in one behaviour of SpecFifo
MaxLoopCalls == 3      \* decisions issued in one behaviour of SpecLoop
MaxHeapLen == 5        \* entries on the heap in SpecHeap
MaxInstances == 3      \* strategy instances constructed in SpecTimers
MaxSeamCalls == 5      \* decisions issued in one behaviour of SpecSeam
MaxSeamTicks == 4      \* the clock advances at most this many times in SpecSeam
TickMs == 1000 \div 2   \* milliseconds between two readings of the clock
Keys == {"a", "b", "c"}                  \* the valid keys that are used
BlankKeys == {""}                \* keys that trim() to the empty string
Limits == {1, 2}
BadLimits == {0}                    \* limits that isAllowedMemory refuses                    \* config.limit (static)
Windows == {1}                      \* config.windowInSeconds
StoreSizes == {1, 2}                \* limiterConfig.maxStoreSize
CleanupIntervals == {2}             \* limiterConfig.cleanupInterval
BatchCaps == {1}
DryRuns == {FALSE, TRUE}            \* config.dryRun
Silents == {FALSE, TRUE}            \* config.silent
HookKinds == {"none", "returns", "throws"}   \* what a configured hook does                 \* limiterConfig.maxBatchCleanup

Null == 0              \* the null reference of prev / next / lruHead / lruTail
NodeIds == 1..(Cardinality(Keys) + 1)   \* identities of LruNode objects

VARIABLES
    now,            \* Date.now()
    cfg,            \* the configuration the limiter was constructed with
    memoryStore,    \* Map<string, MemoryStoreData>, as a function on its keys
    heap,           \* HeapNode[], the expiry min-heap
    hits,           \* module-level counters of the fixed-window store
    rejections,
    callCount,
    nodes,          \* the LruNode objects that are still referenced
    lruHead,
    lruTail,
    perKeyStats,    \* Map<string, {hits, rejections}>
    slidingWindowStore,  \* Map<string, SlidingWindowData>, in insertion order
    tokenBucketStore,    \* Map<string, TokenBucketData>, in insertion order
    recency,        \* history: keys by their last decision, most recent first
    run,            \* history: per key, the calls since it was last found fresh
    wasReset,       \* history: the keys reset and not decided since
    allowedAt,      \* history: per key, the times the sliding window allowed it
    opts,           \* RateLimiter: dryRun, silent and the hooks of its config
    hookCalls,      \* history: how often each hook was invoked
    resets,         \* history: the RateLimiter.reset calls and how the last ended
    given,          \* the config object handed to `new RateLimiter`
    built,          \* how that construction ended
    alone,          \* the stores as they would be without the other instance
                    \* (SpecReadOnly: without the getState calls)
    tally,          \* history: operations through this and the other instance
    agree,          \* history: every decision equalled the one made alone
    stats,          \* RateLimiter.stats
    pc,             \* per RateLimiter.isAllowed call: where it stands
    call,           \* per call: its key, the decision and how it ended
    lockQueue,      \* the calls chained on lockPromise, in acquireLock order
    issuedAt,       \* history: when the first of the calls was issued
    concurrent,     \* history: every call was issued before any completed
    last,           \* history: what the last operation did
    calls,          \* history: number of decisions issued
    kind,           \* per operation on the fixed-window store: which it is
    unguarded,      \* history: who changed the store without holding the lock
    resolved,       \* history: the limit resolved for the last decision
    grants,         \* history: per key, the allowances since it was found fresh
    activated,      \* how the last NestLimiterGuard.canActivate ended
    ghosts,         \* history: the stale expiry entries the last reclaim popped
    inHeap,         \* history: per expiry entry, its pushes minus its pops
    gcInterval,     \* the module-level timer handle of the strategy's module
    timers          \* the interval timers that are active, the instances
                    \* constructed and, as history, those stopped and the
                    \* timer that fired last

fwVars == <<memoryStore, heap, hits, rejections, callCount, nodes, lruHead,
            lruTail, perKeyStats>>
otherStores == <<slidingWindowStore, tokenBucketStore>>
histVars == <<recency, run, wasReset, allowedAt, last, calls>>
limiterVars == <<opts, stats, pc, call, lockQueue, issuedAt, concurrent,
                 hookCalls, resets, given, built>>
instanceVars == <<alone, tally, agree>>
lockVars == <<kind, unguarded>>
timerVars == <<gcInterval, timers>>
probeVars == <<resolved, grants, activated, ghosts, inHeap, timerVars>>
vars == <<now, cfg, fwVars, otherStores, histVars, limiterVars, instanceVars,
          lockVars, probeVars>>

(***************************************************************************)
(* Small helpers.                                                          *)
(***************************************************************************)
Without(f, k) == [x \in (DOMAIN f) \ {k} |-> f[x]]
With(f, k, v) == [x \in (DOMAIN f) \cup {k} |-> IF x = k THEN v ELSE f[x]]
EmptyMap == [x \in {} |-> 0]
Min(a, b) == IF a <= b THEN a ELSE b
SeqWithout(s, k) == SelectSeq(s, LAMBDA x : x # k)

\* String.prototype.trim on the keys that are used.
Trim(key) == IF key \in BlankKeys THEN "" ELSE key
\* typeof key !== "string" || key.trim() === ""
InvalidKey(key) == Trim(key) = ""

windowMs(c) == c.windowInSeconds * 1000

Epoch == 1000 * 1000   \* Date.now() when the process starts, far above a window

(***************************************************************************)
(* The fixed-window store as one value, so that the code's sequential      *)
(* steps compose as functions.  evicted is a log kept for the properties.  *)
(***************************************************************************)
FW == [memoryStore |-> memoryStore, heap |-> heap, hits |-> hits,
       rejections |-> rejections, callCount |-> callCount, nodes |-> nodes,
       lruHead |-> lruHead, lruTail |-> lruTail, perKeyStats |-> perKeyStats,
       evicted |-> <<>>]

EmptyFW == [memoryStore |-> EmptyMap, heap |-> <<>>, hits |-> 0,
            rejections |-> 0, callCount |-> 0, nodes |-> EmptyMap,
            lruHead |-> Null, lruTail |-> Null, perKeyStats |-> EmptyMap,
            evicted |-> <<>>]

(***************************************************************************)
(* Min-heap operations for the expiry queue (indices are 0-based in the    *)
(* code, h[i + 1] is heap[i]).                                             *)
(***************************************************************************)
RECURSIVE SiftUp(_, _, _)
SiftUp(h, i, node) ==
    IF i > 0
    THEN LET parent == (i - 1) \div 2 IN
         IF h[parent + 1].expiresAt <= node.expiresAt
         THEN [h EXCEPT ![i + 1] = node]
         ELSE SiftUp([h EXCEPT ![i + 1] = h[parent + 1]], parent, node)
    ELSE [h EXCEPT ![i + 1] = node]

\* A heapPush that leaves the node where push() put it.
heapPushLast(h, node) == Append(h, node)

heapPush(h, node) == SiftUp(Append(h, node), Len(h), node)

RECURSIVE SiftDown(_, _)
SiftDown(h, i) ==
    LET left == 2 * i + 1
        right == 2 * i + 2
        s1 == IF left < Len(h) /\ h[left + 1].expiresAt < h[i + 1].expiresAt
              THEN left ELSE i
        smallest == IF right < Len(h)
                       /\ h[right + 1].expiresAt < h[s1 + 1].expiresAt
                    THEN right ELSE s1
    IN IF smallest = i
       THEN h
       ELSE SiftDown([h EXCEPT ![i + 1] = h[smallest + 1],
                               ![smallest + 1] = h[i + 1]], smallest)

\* The heap that heapPop leaves; it returns h[1].
heapPop(h) ==
    LET lastNode == h[Len(h)]
        rest == SubSeq(h, 1, Len(h) - 1)
    IN IF Len(rest) > 0 THEN SiftDown([rest EXCEPT ![1] = lastNode], 0) ELSE rest

(***************************************************************************)
(* LRU operations for memory capping.                                      *)
(***************************************************************************)
\* The identity of the object that `new` creates next.
FreshNode(S) == CHOOSE id \in NodeIds \ DOMAIN S.nodes :
                    \A other \in NodeIds \ DOMAIN S.nodes : id <= other

addLruNode(S, key) ==
    LET id == FreshNode(S)
        n1 == With(S.nodes, id, [key |-> key, prev |-> Null, next |-> S.lruHead])
        n2 == IF S.lruHead # Null
              THEN [n1 EXCEPT ![S.lruHead].prev = id] ELSE n1
    IN [S EXCEPT !.nodes = n2,
                 !.lruHead = id,
                 !.lruTail = IF S.lruTail = Null THEN id ELSE S.lruTail]

\* A moveToFront that leaves the list as it is.
moveToFrontStale(S, id) == S

moveToFront(S, id) ==
    IF id = S.lruHead THEN S
    ELSE LET nd == S.nodes[id]
             n1 == IF nd.prev # Null
                   THEN [S.nodes EXCEPT ![nd.prev].next = nd.next] ELSE S.nodes
             n2 == IF nd.next # Null
                   THEN [n1 EXCEPT ![nd.next].prev = nd.prev] ELSE n1
             tail1 == IF id = S.lruTail THEN nd.prev ELSE S.lruTail
             n3 == [n2 EXCEPT ![id].next = S.lruHead, ![id].prev = Null]
             n4 == IF S.lruHead # Null
                   THEN [n3 EXCEPT ![S.lruHead].prev = id] ELSE n3
         IN [S EXCEPT !.nodes = n4,
                      !.lruHead = id,
                      !.lruTail = IF tail1 = Null THEN id ELSE tail1]

removeLruTail(S) ==
    IF S.lruTail = Null THEN S
    ELSE LET t == S.nodes[S.lruTail]
             S1 == [S EXCEPT !.memoryStore = Without(S.memoryStore, t.key),
                             !.perKeyStats = Without(S.perKeyStats, t.key),
                             !.evicted = Append(S.evicted,
                                 [victim |-> t.key,
                                  stored |-> DOMAIN S.memoryStore,
                                  expiresAt |-> IF t.key \in DOMAIN S.memoryStore
                                                THEN S.memoryStore[t.key].expiresAt
                                                ELSE -1])]
         IN IF t.prev # Null
            THEN [S1 EXCEPT !.nodes = [S.nodes EXCEPT ![t.prev].next = Null],
                            !.lruTail = t.prev]
            ELSE [S1 EXCEPT !.lruHead = Null, !.lruTail = Null]

\* An unlink-and-delete that forgets to move lruHead and lruTail.
UnlinkAndDeleteKeepsEnds(S, key) ==
    LET id == S.memoryStore[key].lruNode
        nd == S.nodes[id]
        n1 == IF nd.prev # Null
              THEN [S.nodes EXCEPT ![nd.prev].next = nd.next] ELSE S.nodes
        n2 == IF nd.next # Null
              THEN [n1 EXCEPT ![nd.next].prev = nd.prev] ELSE n1
    IN [S EXCEPT !.nodes = n2,
                 !.memoryStore = Without(S.memoryStore, key),
                 !.perKeyStats = Without(S.perKeyStats, key)]

\* The inlined unlink-and-delete of resetKey, sweepExpiredKeys and steps 1, 2.
UnlinkAndDelete(S, key) ==
    LET id == S.memoryStore[key].lruNode
        nd == S.nodes[id]
        n1 == IF nd.prev # Null
              THEN [S.nodes EXCEPT ![nd.prev].next = nd.next] ELSE S.nodes
        n2 == IF nd.next # Null
              THEN [n1 EXCEPT ![nd.next].prev = nd.prev] ELSE n1
    IN [S EXCEPT !.nodes = n2,
                 !.lruHead = IF id = S.lruHead THEN nd.next ELSE S.lruHead,
                 !.lruTail = IF id = S.lruTail THEN nd.prev ELSE S.lruTail,
                 !.memoryStore = Without(S.memoryStore, key),
                 !.perKeyStats = Without(S.perKeyStats, key)]

\* Garbage collection: an LruNode no reference leads to is gone.
RECURSIVE Reachable(_, _)
Reachable(S, ids) ==
    LET next == ids \cup {S.nodes[i].prev : i \in ids \cap DOMAIN S.nodes}
                    \cup {S.nodes[i].next : i \in ids \cap DOMAIN S.nodes}
    IN IF next = ids THEN ids ELSE Reachable(S, next)

Collect(S) ==
    LET roots == {S.lruHead, S.lruTail}
                 \cup {S.memoryStore[k].lruNode : k \in DOMAIN S.memoryStore}
        live == Reachable(S, roots) \cap DOMAIN S.nodes
    IN [S EXCEPT !.nodes = [i \in live |-> S.nodes[i]]]

(***************************************************************************)
(* isAllowedMemory, between acquireLock and unlock.                        *)
(***************************************************************************)
\* perKeyStats.set(key, {hits: old + dh, rejections: old + dr})
BumpPerKey(S, key, enable, dh, dr) ==
    IF enable
    THEN LET old == IF key \in DOMAIN S.perKeyStats
                    THEN S.perKeyStats[key] ELSE [hits |-> 0, rejections |-> 0]
         IN [S EXCEPT !.perKeyStats =
                With(S.perKeyStats, key, [hits |-> old.hits + dh,
                                          rejections |-> old.rejections + dr])]
    ELSE S

\* The reclaim loop of steps 1 and 2 and of sweepExpiredKeys: pop while the
\* minimum has expiresAt <= threshold, at most cap entries.
RECURSIVE ReclaimLoop(_, _, _, _)
RECURSIVE ReclaimLoopTrusting(_, _, _, _)
\* A reclaim loop that deletes the record of every popped key it finds.
ReclaimLoopTrusting(S, threshold, cap, cleaned) ==
    IF Len(S.heap) > 0 /\ S.heap[1].expiresAt <= threshold /\ cleaned < cap
    THEN LET expired == S.heap[1]
             S1 == [S EXCEPT !.heap = heapPop(S.heap)]
             S2 == IF expired.key \in DOMAIN S1.memoryStore
                   THEN UnlinkAndDelete(S1, expired.key)
                   ELSE S1
         IN ReclaimLoopTrusting(S2, threshold, cap, cleaned + 1)
    ELSE S

ReclaimLoop(S, threshold, cap, cleaned) ==
    IF Len(S.heap) > 0 /\ S.heap[1].expiresAt <= threshold /\ cleaned < cap
    THEN LET expired == S.heap[1]
             S1 == [S EXCEPT !.heap = heapPop(S.heap)]
             S2 == IF expired.key \in DOMAIN S1.memoryStore
                      /\ S1.memoryStore[expired.key].expiresAt = expired.expiresAt
                   THEN UnlinkAndDelete(S1, expired.key)
                   ELSE S1
         IN ReclaimLoop(S2, threshold, cap, cleaned + 1)
    ELSE S

\* while (memoryStore.size >= bound) removeLruTail().  With bound >= 1 the
\* loop ends: the list is not empty while the map is not.
RECURSIVE EnforceCap(_, _)
EnforceCap(S, bound) ==
    IF Cardinality(DOMAIN S.memoryStore) >= bound /\ S.lruTail # Null
    THEN EnforceCap(removeLruTail(S), bound)
    ELSE S

\* A new entry that is given no expiry entry on the heap.
NewEntryNoPush(S, key, c, currentTime) ==
    LET expiresAt == currentTime + windowMs(c)
        id == FreshNode(S)
        S1 == addLruNode(S, key)
        S2 == [S1 EXCEPT !.memoryStore = With(S1.memoryStore, key,
                             [count |-> 1, expiresAt |-> expiresAt,
                              lruNode |-> id]),
                         !.hits = S1.hits + 1]
    IN [S |-> BumpPerKey(S2, key, c.enablePerKeyStats, 1, 0),
        allowed |-> TRUE, threw |-> FALSE]

\* Step 4, key absent: the new entry.
NewEntry(S, key, c, currentTime) ==
    LET expiresAt == currentTime + windowMs(c)
        id == FreshNode(S)
        S1 == addLruNode(S, key)
        S2 == [S1 EXCEPT !.memoryStore = With(S1.memoryStore, key,
                             [count |-> 1, expiresAt |-> expiresAt,
                              lruNode |-> id]),
                         !.heap = heapPush(S1.heap,
                             [key |-> key, expiresAt |-> expiresAt]),
                         !.hits = S1.hits + 1]
    IN [S |-> BumpPerKey(S2, key, c.enablePerKeyStats, 1, 0),
        allowed |-> TRUE, threw |-> FALSE]

\* An expired entry that is refreshed without a new expiry entry.
ExpiredEntryNoPush(S1, key, c, currentTime) ==
    LET S2 == [S1 EXCEPT !.memoryStore[key].count = 1,
                         !.memoryStore[key].expiresAt = currentTime + windowMs(c),
                         !.hits = S1.hits + 1]
    IN [S |-> BumpPerKey(S2, key, c.enablePerKeyStats, 1, 0),
        allowed |-> TRUE, threw |-> FALSE]

\* Step 4, entry.expiresAt <= currentTime: the expired entry is refreshed.
ExpiredEntry(S1, key, c, currentTime) ==
    LET expiresAt == currentTime + windowMs(c)
        S2 == [S1 EXCEPT !.memoryStore[key].count = 1,
                         !.memoryStore[key].expiresAt = expiresAt,
                         !.heap = heapPush(S1.heap,
                             [key |-> key, expiresAt |-> expiresAt]),
                         !.hits = S1.hits + 1]
    IN [S |-> BumpPerKey(S2, key, c.enablePerKeyStats, 1, 0),
        allowed |-> TRUE, threw |-> FALSE]

\* A comparison that lets the count pass the limit.
UnderLimitInclusive(entry, limit) == entry.count <= limit

\* entry.count < limit
UnderLimit(entry, limit) == entry.count < limit

\* An allowance that is not counted.
CountedEntryFree(S1, key, c) ==
    LET S2 == [S1 EXCEPT !.hits = S1.hits + 1]
    IN [S |-> BumpPerKey(S2, key, c.enablePerKeyStats, 1, 0),
        allowed |-> TRUE, threw |-> FALSE]

\* Step 4, entry.count < limit: the count is incremented.
CountedEntry(S1, key, c) ==
    LET S2 == [S1 EXCEPT !.memoryStore[key].count = @ + 1,
                         !.hits = S1.hits + 1]
    IN [S |-> BumpPerKey(S2, key, c.enablePerKeyStats, 1, 0),
        allowed |-> TRUE, threw |-> FALSE]

\* A rejection that starts the window of the key again.
RejectedEntryExtends(S1, key, c, currentTime) ==
    LET S2 == [S1 EXCEPT !.rejections = S1.rejections + 1,
                         !.memoryStore[key].expiresAt = currentTime + windowMs(c)]
    IN [S |-> BumpPerKey(S2, key, c.enablePerKeyStats, 0, 1),
        allowed |-> FALSE, threw |-> FALSE]

\* Step 4, rate limit exceeded.
RejectedEntry(S1, key, c, currentTime) ==
    LET S2 == [S1 EXCEPT !.rejections = S1.rejections + 1]
    IN [S |-> BumpPerKey(S2, key, c.enablePerKeyStats, 0, 1),
        allowed |-> FALSE, threw |-> FALSE]

\* A step 4 that leaves the key where it is on the recency list.
ProcessKeyInPlace(S, key, limit, c, currentTime) ==
    IF key \notin DOMAIN S.memoryStore
    THEN NewEntry(S, key, c, currentTime)
    ELSE LET entry == S.memoryStore[key]
         IN IF entry.expiresAt <= currentTime
            THEN ExpiredEntry(S, key, c, currentTime)
            ELSE IF UnderLimit(entry, limit)
            THEN CountedEntry(S, key, c)
            ELSE RejectedEntry(S, key, c, currentTime)

\* Step 4, on the record of key.
ProcessKey(S, key, limit, c, currentTime) ==
    IF key \notin DOMAIN S.memoryStore
    THEN NewEntry(S, key, c, currentTime)
    ELSE LET S1 == moveToFront(S, S.memoryStore[key].lruNode)
             entry == S1.memoryStore[key]
         IN IF entry.expiresAt <= currentTime
            THEN ExpiredEntry(S1, key, c, currentTime)
            ELSE IF UnderLimit(entry, limit)
            THEN CountedEntry(S1, key, c)
            ELSE RejectedEntry(S1, key, c, currentTime)

\* The input checks made before the lock is taken (the windows that are
\* used are far below Number.MAX_SAFE_INTEGER / 1000).
InvalidInput(key, limit, c) ==
    InvalidKey(key) \/ limit <= 0 \/ c.windowInSeconds <= 0

\* callCount++ and steps 1 and 2: the on-demand and the periodic cleanup.
InCallReclaim(S, c, currentTime) ==
    LET S0 == [S EXCEPT !.callCount = S.callCount + 1]
        S1 == ReclaimLoop(S0, currentTime, c.maxBatchCleanup, 0)
    IN IF S1.callCount % c.cleanupInterval = 0 /\ Len(S1.heap) > 0
       THEN ReclaimLoop(S1, currentTime - windowMs(c), c.maxBatchCleanup, 0)
       ELSE S1

\* Steps 1 to 4 under the lock, at clock reading currentTime.
LockedDecision(S, key, limit, c, currentTime) ==
    LET S2 == InCallReclaim(S, c, currentTime)
        S3 == EnforceCap(S2, c.maxStoreSize)
    IN ProcessKey(S3, key, limit, c, currentTime)

isAllowedMemory(S, key, limit, c, currentTime) ==
    IF InvalidInput(key, limit, c)
    THEN [S |-> S, allowed |-> FALSE, threw |-> TRUE]
    ELSE LockedDecision(S, key, limit, c, currentTime)

\* FixedWindowStrategy.isAllowed: its own capacity loop, then isAllowedMemory.
FixedIsAllowed(S, key, c, currentTime) ==
    isAllowedMemory(EnforceCap(S, c.maxStoreSize), key, c.limit, c, currentTime)

\* A resetKey that deletes nothing.
resetKeyKeeps(S, key) == S

\* resetKey between acquireLock and unlock.
resetKey(S, key) ==
    IF key \in DOMAIN S.memoryStore THEN UnlinkAndDelete(S, key) ELSE S

\* An interval callback that does nothing.
fixedGcCallbackIdle(S, c, currentTime) == S

\* The interval callback of FixedWindowStrategy.startGC.
fixedGcCallback(S, c, currentTime) ==
    LET S1 == ReclaimLoop(S, currentTime, c.maxBatchCleanup, 0)
    IN IF Cardinality(DOMAIN S1.memoryStore) > c.maxStoreSize
       THEN EnforceCap(S1, c.maxStoreSize + 1)
       ELSE S1

(***************************************************************************)
(* A JS Map as the sequence of its entries in insertion order.             *)
(***************************************************************************)
MapKeys(m) == {m[i].key : i \in 1..Len(m)}
MapHas(m, key) == key \in MapKeys(m)
MapGet(m, key) == m[CHOOSE i \in 1..Len(m) : m[i].key = key]
MapDelete(m, key) == SelectSeq(m, LAMBDA e : e.key # key)
\* set(): an existing key keeps its place, a new one goes last.
MapSet(m, entry) ==
    IF MapHas(m, entry.key)
    THEN [i \in 1..Len(m) |-> IF m[i].key = entry.key THEN entry ELSE m[i]]
    ELSE Append(m, entry)

\* while (store.size >= bound) store.delete(store.keys().next().value)
RECURSIVE DeleteFirstWhile(_, _)
\* A capacity loop that never deletes.
DeleteFirstWhileNever(m, bound) == m

DeleteFirstWhile(m, bound) ==
    IF Len(m) >= bound /\ Len(m) > 0
    THEN DeleteFirstWhile(Tail(m), bound)
    ELSE m

(***************************************************************************)
(* SlidingWindowStrategy.                                                  *)
(***************************************************************************)
slidingIsAllowed(m, key, limit, c, currentTime) ==
    LET m1 == DeleteFirstWhile(m, c.maxStoreSize)
        windowStart == currentTime - windowMs(c)
        created == IF MapHas(m1, key) THEN MapGet(m1, key)
                   ELSE [key |-> key, timestamps |-> <<>>,
                         expiresAt |-> currentTime + windowMs(c)]
        kept == SelectSeq(created.timestamps, LAMBDA ts : ts > windowStart)
    IN IF Len(kept) < limit
       THEN [S |-> MapSet(m1, [created EXCEPT !.timestamps = Append(kept, currentTime)]),
             allowed |-> TRUE, threw |-> FALSE]
       ELSE [S |-> MapSet(m1, [created EXCEPT !.timestamps = kept]),
             allowed |-> FALSE, threw |-> FALSE]

\* sweepExpiredKeys of the sliding-window module, one entry.
SlidingSweepEntry(e, currentTime) ==
    [e EXCEPT !.timestamps =
        SelectSeq(e.timestamps, LAMBDA ts : ts > currentTime - e.expiresAt)]

slidingSweep(m, c, currentTime) ==
    LET swept == [i \in 1..Len(m) |-> SlidingSweepEntry(m[i], currentTime)]
        kept == SelectSeq(swept, LAMBDA e : Len(e.timestamps) # 0)
    IN DeleteFirstWhile(kept, c.maxStoreSize + 1)

(***************************************************************************)
(* TokenBucketStrategy.  tokens holds tokens * windowMs, refillRate holds  *)
(* refillRate * windowMs (the limit the entry was created with).           *)
(***************************************************************************)
tokenIsAllowed(m, key, limit, c, currentTime) ==
    LET m1 == DeleteFirstWhile(m, c.maxStoreSize)
        entry == IF MapHas(m1, key) THEN MapGet(m1, key)
                 ELSE [key |-> key, tokens |-> limit * windowMs(c),
                       lastRefill |-> currentTime, capacity |-> limit,
                       refillRate |-> limit]
        timeElapsed == currentTime - entry.lastRefill
        tokensToAdd == timeElapsed * entry.refillRate
        refilled == Min(entry.capacity * windowMs(c), entry.tokens + tokensToAdd)
        e1 == [entry EXCEPT !.tokens = refilled, !.lastRefill = currentTime]
    IN IF refilled >= windowMs(c)
       THEN [S |-> MapSet(m1, [e1 EXCEPT !.tokens = refilled - windowMs(c)]),
             allowed |-> TRUE, threw |-> FALSE]
       ELSE [S |-> MapSet(m1, e1), allowed |-> FALSE, threw |-> FALSE]

\* sweepExpiredKeys of the token-bucket module.
tokenSweep(m, c, currentTime) ==
    LET kept == SelectSeq(m, LAMBDA e :
                    ~(e.tokens <= 0
                      /\ (currentTime - e.lastRefill) * e.refillRate
                            > e.capacity * windowMs(c)))
    IN DeleteFirstWhile(kept, c.maxStoreSize + 1)

(***************************************************************************)
(* The state after the modules are loaded and a limiter is constructed.    *)
(***************************************************************************)
Strategies == {"fixed", "sliding", "tokenBucket"}

Configs == [strategy : Strategies, limit : Limits, windowInSeconds : Windows,
            maxStoreSize : StoreSizes, cleanupInterval : CleanupIntervals,
            enablePerKeyStats : {TRUE}, maxBatchCleanup : BatchCaps]

NoRun == [first |-> 0, n |-> 0, afterReset |-> FALSE]
NoBefore == [present |-> FALSE, tokens |-> 0, lastRefill |-> 0]
NoOp == [op |-> "none", key |-> "", allowed |-> FALSE, threw |-> FALSE,
         at |-> 0, evicted |-> <<>>, before |-> NoBefore, selfEvicted |-> FALSE,
         mutated |-> FALSE]

InitStores ==
    /\ memoryStore = EmptyMap
    /\ heap = <<>>
    /\ hits = 0
    /\ rejections = 0
    /\ callCount = 0
    /\ nodes = EmptyMap
    /\ lruHead = Null
    /\ lruTail = Null
    /\ perKeyStats = EmptyMap
    /\ slidingWindowStore = <<>>
    /\ tokenBucketStore = <<>>

InitHistory ==
    /\ recency = <<>>
    /\ run = [k \in Keys |-> NoRun]
    /\ wasReset = {}
    /\ allowedAt = [k \in Keys |-> <<>>]
    /\ last = NoOp
    /\ calls = 0

\* The HeapNode values pushed in SpecHeap.
HeapTimes == {1, 2, 3}
HeapNodes == [key : {"a", "b"}, expiresAt : HeapTimes]

Calls == 1..MaxInFlight
NoCall == [key |-> "", allowed |-> FALSE, threw |-> FALSE, outcome |-> "pending",
           invoked |-> "none"]
\* Config values as the validator sees them: JavaScript numbers, a function,
\* a string that names no strategy, and a field left out.
Absent == "absent"
NumberValues == {"-1", "0", "1", "60", "100", "NaN", "Infinity"}
NoConfig == [limit |-> Absent, windowInSeconds |-> Absent, strategy |-> Absent,
             maxStoreSize |-> Absent, cleanupInterval |-> Absent]
NotBuilt == [status |-> "none", errors |-> <<>>, config |-> NoConfig]

HookNames == {"onPass", "onLimitReached", "onReset", "onError"}
\* A limiter without hooks that returns the strategy's decision.
PlainOptions == [dryRun |-> FALSE, silent |-> FALSE, hooks |-> "none",
                 onError |-> "none"]

InitInstances ==
    /\ alone = [fw |-> EmptyFW, sliding |-> <<>>, tokenBucket |-> <<>>]
    /\ tally = [mine |-> 0, theirs |-> 0]
    /\ agree = TRUE

\* No operation has asked for the lock, no decision or guard has run.
InitProbes ==
    /\ kind = [i \in Calls |-> "none"]
    /\ unguarded = {}
    /\ resolved = 0
    /\ grants = [k \in Keys |-> 0]
    /\ activated = "none"
    /\ ghosts = 0
    /\ inHeap = [e \in HeapNodes |-> 0]
    /\ gcInterval = Null
    /\ timers = [active |-> {}, constructed |-> {}, gcStarted |-> {},
                 stopped |-> {}, fired |-> Null]

InitLimiter ==
    /\ stats = [totalRequests |-> 0, hits |-> 0, rejections |-> 0]
    /\ pc = [i \in Calls |-> "idle"]
    /\ call = [i \in Calls |-> NoCall]
    /\ lockQueue = <<>>
    /\ issuedAt = 0
    /\ concurrent = TRUE
    /\ hookCalls = [h \in HookNames |-> 0]
    /\ resets = [n |-> 0, outcome |-> "none"]
    /\ given = NoConfig
    /\ built = NotBuilt
    /\ InitInstances
    /\ InitProbes

Init ==
    /\ now = Epoch
    /\ cfg \in Configs
    /\ opts = PlainOptions
    /\ InitStores
    /\ InitHistory
    /\ InitLimiter

\* The store a handler leaves, once unreferenced nodes are collected.
Commit(S) ==
    LET T == Collect(S) IN
    /\ memoryStore' = T.memoryStore
    /\ heap' = T.heap
    /\ hits' = T.hits
    /\ rejections' = T.rejections
    /\ callCount' = T.callCount
    /\ nodes' = T.nodes
    /\ lruHead' = T.lruHead
    /\ lruTail' = T.lruTail
    /\ perKeyStats' = T.perKeyStats

\* The keys the limiter's strategy holds a record of.
StoredKeys ==
    IF cfg.strategy = "fixed" THEN DOMAIN memoryStore
    ELSE IF cfg.strategy = "sliding" THEN MapKeys(slidingWindowStore)
    ELSE MapKeys(tokenBucketStore)

\* The least recently decided key among stored, by the history.
LruOf(stored) ==
    LET s == SelectSeq(recency, LAMBDA x : x \in stored)
    IN IF Len(s) = 0 THEN "" ELSE s[Len(s)]

\* The eviction log of a handler, each victim beside the key the history
\* names as least recently decided, and whether the victim was still live.
EvictionLog(S, currentTime) ==
    [i \in 1..Len(S.evicted) |->
        [victim |-> S.evicted[i].victim,
         lru |-> LruOf(S.evicted[i].stored),
         choices |-> Cardinality(S.evicted[i].stored),
         live |-> S.evicted[i].expiresAt > currentTime]]

\* Allowed-decision times that can still share a window with a later one.
Recent(times) == SelectSeq(times, LAMBDA t : t > now' - windowMs(cfg))

\* The history keeps only the keys that are stored: a key that is absent
\* starts afresh with its next call.
History(rec, rn, stored) ==
    /\ recency' = SelectSeq(rec, LAMBDA x : x \in stored)
    /\ run' = [k \in Keys |-> IF k \in stored THEN rn[k] ELSE NoRun]

\* History of a decision for key with outcome r that left the keys stored;
\* fresh: the call found key with its full quota (absent, or idle for a
\* window under the token bucket).
RecordDecision(key, r, fresh, stored, log, before, selfEvicted) ==
    /\ IF r.threw \/ key \notin Keys
       THEN /\ History(recency, run, stored)
            /\ UNCHANGED <<wasReset, allowedAt>>
       ELSE /\ History(<<key>> \o SeqWithout(recency, key),
                       [run EXCEPT ![key] =
                           IF fresh
                           THEN [first |-> now, n |-> 1,
                                 afterReset |-> key \in wasReset]
                           ELSE [@ EXCEPT !.n = @ + 1]],
                       stored)
            /\ wasReset' = wasReset \ {key}
            /\ allowedAt' = [allowedAt EXCEPT ![key] =
                                IF r.allowed /\ cfg.strategy = "sliding"
                                THEN Append(@, now) ELSE @]
    /\ last' = [op |-> "isAllowed", key |-> key, allowed |-> r.allowed,
                threw |-> r.threw, at |-> now, evicted |-> log,
                before |-> before, selfEvicted |-> selfEvicted,
                mutated |-> r.threw /\ fwVars' # fwVars]
    /\ calls' = calls + 1

\* History of reset(key).
RecordReset(key, threw, stored) ==
    /\ History(recency, run, stored)
    /\ wasReset' = IF threw \/ key \notin Keys THEN wasReset
                   ELSE wasReset \cup {key}
    /\ allowedAt' = [k \in Keys |-> IF k = key /\ ~threw THEN <<>> ELSE allowedAt[k]]
    /\ last' = [NoOp EXCEPT !.op = "reset", !.key = key, !.threw = threw]
    /\ UNCHANGED calls

(***************************************************************************)
(* Operations of the fixed-window strategy, each awaited before the next.  *)
(***************************************************************************)
\* await isAllowedMemory(key, limit, windowInSeconds, limiterConfig)
MemoryDecision(key, budget) ==
    /\ cfg.strategy = "fixed"
    /\ calls < budget
    /\ LET r == isAllowedMemory(FW, key, cfg.limit, cfg, now) IN
       /\ Commit(r.S)
       /\ RecordDecision(key, r, key \notin DOMAIN memoryStore,
                         DOMAIN r.S.memoryStore, EvictionLog(r.S, now),
                         NoBefore, FALSE)
    /\ UNCHANGED <<now, cfg, otherStores, limiterVars, instanceVars, lockVars, probeVars>>

\* await strategy.isAllowed(key), strategy a FixedWindowStrategy
StrategyDecision(key, budget) ==
    /\ cfg.strategy = "fixed"
    /\ calls < budget
    /\ LET r == FixedIsAllowed(FW, key, cfg, now) IN
       /\ Commit(r.S)
       /\ RecordDecision(key, r, key \notin DOMAIN memoryStore,
                         DOMAIN r.S.memoryStore, EvictionLog(r.S, now),
                         NoBefore, FALSE)
    /\ UNCHANGED <<now, cfg, otherStores, limiterVars, instanceVars, lockVars, probeVars>>

IsAllowedMemoryCall(key) == MemoryDecision(key, MaxCalls)

\* await isAllowedMemory(key, limit, ...) with a limit that is refused
MemoryBadLimit(key, limit) ==
    /\ cfg.strategy = "fixed"
    /\ calls < MaxCalls
    /\ LET r == isAllowedMemory(FW, key, limit, cfg, now) IN
       /\ Commit(r.S)
       /\ RecordDecision(key, r, FALSE, DOMAIN r.S.memoryStore,
                         EvictionLog(r.S, now), NoBefore, FALSE)
    /\ UNCHANGED <<now, cfg, otherStores, limiterVars, instanceVars, lockVars, probeVars>>

\* await strategy.isAllowed(key, req), config.limit a function that returns
\* a limit that is refused
StrategyBadLimit(key, limit) ==
    /\ cfg.strategy = "fixed"
    /\ calls < MaxCalls
    /\ LET r == FixedIsAllowed(FW, key, [cfg EXCEPT !.limit = limit], now) IN
       /\ Commit(r.S)
       /\ RecordDecision(key, r, FALSE, DOMAIN r.S.memoryStore,
                         EvictionLog(r.S, now), NoBefore, FALSE)
    /\ UNCHANGED <<now, cfg, otherStores, limiterVars, instanceVars, lockVars, probeVars>>

FixedStrategyCall(key) == StrategyDecision(key, MaxCalls)

\* await strategy.reset(key), which is resetKey(key)
FixedReset(key) ==
    /\ cfg.strategy = "fixed"
    /\ LET S == IF InvalidKey(key) THEN FW ELSE resetKey(FW, key) IN
       /\ Commit(S)
       /\ RecordReset(key, InvalidKey(key), DOMAIN S.memoryStore)
    /\ UNCHANGED <<now, cfg, otherStores, limiterVars, instanceVars, lockVars, probeVars>>

\* await FixedWindowStrategy.resetAll()
FixedResetAll ==
    /\ cfg.strategy = "fixed"
    /\ Commit(EmptyFW)
    /\ History(recency, run, {})
    /\ last' = [NoOp EXCEPT !.op = "resetAll"]
    /\ UNCHANGED <<now, cfg, otherStores, wasReset, allowedAt, calls, limiterVars, instanceVars,
      lockVars, probeVars>>

\* The 30 s interval timer of the strategy fires.
FixedGcFires ==
    /\ cfg.strategy = "fixed"
    /\ LET S == fixedGcCallback(FW, cfg, now) IN
       /\ Commit(S)
       /\ History(recency, run, DOMAIN S.memoryStore)
       /\ last' = [NoOp EXCEPT !.op = "gc", !.evicted = EvictionLog(S, now)]
    /\ UNCHANGED <<now, cfg, otherStores, wasReset, allowedAt, calls, limiterVars, instanceVars,
      lockVars, probeVars>>

(***************************************************************************)
(* Operations of the sliding-window strategy.                              *)
(***************************************************************************)
SlidingCall(key) ==
    /\ cfg.strategy = "sliding"
    /\ calls < MaxCalls
    /\ LET r == slidingIsAllowed(slidingWindowStore, key, cfg.limit, cfg, now) IN
       /\ slidingWindowStore' = r.S
       /\ RecordDecision(key, r, ~MapHas(slidingWindowStore, key),
                         MapKeys(r.S), <<>>, NoBefore, FALSE)
    /\ UNCHANGED <<now, cfg, fwVars, tokenBucketStore, limiterVars, instanceVars,
      lockVars, probeVars>>

SlidingReset(key) ==
    /\ cfg.strategy = "sliding"
    /\ slidingWindowStore' = MapDelete(slidingWindowStore, key)
    /\ RecordReset(key, FALSE, MapKeys(slidingWindowStore'))
    /\ UNCHANGED <<now, cfg, fwVars, tokenBucketStore, limiterVars, instanceVars,
      lockVars, probeVars>>

SlidingGcFires ==
    /\ cfg.strategy = "sliding"
    /\ slidingWindowStore' = slidingSweep(slidingWindowStore, cfg, now)
    /\ History(recency, run, MapKeys(slidingWindowStore'))
    /\ last' = [NoOp EXCEPT !.op = "gc"]
    /\ UNCHANGED <<now, cfg, fwVars, tokenBucketStore, wasReset, allowedAt, calls, limiterVars, instanceVars,
      lockVars, probeVars>>

(***************************************************************************)
(* Operations of the token-bucket strategy.                                *)
(***************************************************************************)
\* History: the bucket of key as the call finds it, and whether the call's
\* own capacity loop deletes it.
TokenBefore(key) ==
    IF MapHas(tokenBucketStore, key)
    THEN [present |-> TRUE, tokens |-> MapGet(tokenBucketStore, key).tokens,
          lastRefill |-> MapGet(tokenBucketStore, key).lastRefill]
    ELSE NoBefore

TokenSelfEvicted(key) ==
    /\ MapHas(tokenBucketStore, key)
    /\ ~MapHas(DeleteFirstWhile(tokenBucketStore, cfg.maxStoreSize), key)

TokenCall(key) ==
    /\ cfg.strategy = "tokenBucket"
    /\ calls < MaxCalls
    /\ LET r == tokenIsAllowed(tokenBucketStore, key, cfg.limit, cfg, now) IN
       /\ tokenBucketStore' = r.S
       /\ RecordDecision(key, r,
              \/ ~MapHas(tokenBucketStore, key)
              \/ now - MapGet(tokenBucketStore, key).lastRefill >= windowMs(cfg),
              MapKeys(r.S), <<>>, TokenBefore(key), TokenSelfEvicted(key))
    /\ UNCHANGED <<now, cfg, fwVars, slidingWindowStore, limiterVars, instanceVars,
      lockVars, probeVars>>

TokenReset(key) ==
    /\ cfg.strategy = "tokenBucket"
    /\ tokenBucketStore' = MapDelete(tokenBucketStore, key)
    /\ RecordReset(key, FALSE, MapKeys(tokenBucketStore'))
    /\ UNCHANGED <<now, cfg, fwVars, slidingWindowStore, limiterVars, instanceVars,
      lockVars, probeVars>>

TokenGcFires ==
    /\ cfg.strategy = "tokenBucket"
    /\ tokenBucketStore' = tokenSweep(tokenBucketStore, cfg, now)
    /\ History(recency, run, MapKeys(tokenBucketStore'))
    /\ last' = [NoOp EXCEPT !.op = "gc"]
    /\ UNCHANGED <<now, cfg, fwVars, slidingWindowStore, wasReset, allowedAt, calls, limiterVars, instanceVars,
      lockVars, probeVars>>

\* Time passes.
Tick ==
    /\ now < Epoch + MaxTicks * TickMs
    /\ now' = now + TickMs
    /\ allowedAt' = [k \in Keys |-> Recent(allowedAt[k])]
    /\ UNCHANGED <<cfg, fwVars, otherStores, recency, run, wasReset, last, calls,
                   limiterVars, instanceVars, lockVars, probeVars>>

CallKeys == {"a", "b"}             \* the keys Spec and SpecConcurrent call with
AnyKey == CallKeys \cup BlankKeys

Next ==
    \/ \E key \in AnyKey : IsAllowedMemoryCall(key)
    \/ \E key \in AnyKey : FixedStrategyCall(key)
    \/ \E key \in AnyKey, limit \in BadLimits : MemoryBadLimit(key, limit)
    \/ \E key \in AnyKey, limit \in BadLimits : StrategyBadLimit(key, limit)
    \/ \E key \in AnyKey : FixedReset(key)
    \/ FixedResetAll
    \/ FixedGcFires
    \/ \E key \in AnyKey : SlidingCall(key)
    \/ \E key \in AnyKey : SlidingReset(key)
    \/ SlidingGcFires
    \/ \E key \in AnyKey : TokenCall(key)
    \/ \E key \in AnyKey : TokenReset(key)
    \/ TokenGcFires
    \/ Tick

Spec == Init /\ [][Next]_vars

(***************************************************************************)
(* The fixed-window store with room for every key, so that a stored key is *)
(* found again and moved to the front of the recency list.                 *)
(***************************************************************************)
LruStoreSizes == {2, 3}
LruConfigs == [strategy : {"fixed"}, limit : {1}, windowInSeconds : Windows,
               maxStoreSize : LruStoreSizes, cleanupInterval : CleanupIntervals,
               enablePerKeyStats : {TRUE}, maxBatchCleanup : BatchCaps]

InitLru ==
    /\ now = Epoch
    /\ cfg \in LruConfigs
    /\ opts = PlainOptions
    /\ InitStores
    /\ InitHistory
    /\ InitLimiter

NextLru ==
    \/ \E key \in Keys : MemoryDecision(key, MaxLruCalls)
    \/ \E key \in Keys : StrategyDecision(key, MaxLruCalls)
    \/ Tick

SpecLru == InitLru /\ [][NextLru]_vars

(***************************************************************************)
(* RateLimiter.isAllowed, with calls in flight.  A call runs to its first  *)
(* await when it is issued; the fixed-window strategy then waits for the   *)
(* lock, and RateLimiter.isAllowed resumes once the strategy has settled.  *)
(***************************************************************************)
\* this.stats.totalRequests++
countRequest(st) == [st EXCEPT !.totalRequests = @ + 1]

\* A count that books every decision as a hit.
countDecisionAsHit(st, allowed) == [st EXCEPT !.hits = @ + 1]

\* if (allowed) this.stats.hits++ else this.stats.rejections++
countDecision(st, allowed) ==
    IF allowed THEN [st EXCEPT !.hits = @ + 1]
    ELSE [st EXCEPT !.rejections = @ + 1]

\* callHook: whether it throws, for a hook and an onError hook of these
\* kinds.  A throwing hook is caught and passed to onError, which is not
\* guarded.
callHookThrows(hook, onError) == hook = "throws" /\ onError = "throws"

\* How RateLimiter.isAllowed ends after the strategy allowed or rejected:
\* a throw from callHook lands in the catch block, which calls the onError
\* hook through callHook and rethrows.
\* A RateLimiter.isAllowed that returns the real decision in dryRun mode too.
limiterOutcomeReal(o, allowed, hook, onError) ==
    IF callHookThrows(hook, onError) THEN "threw"
    ELSE IF allowed THEN "true" ELSE "false"

limiterOutcome(o, allowed, hook, onError) ==
    IF callHookThrows(hook, onError) THEN "threw"
    ELSE IF o.dryRun THEN "true"
    ELSE IF o.silent THEN (IF allowed THEN "true" ELSE "false")
    ELSE IF allowed THEN "true" ELSE "false"

\* A choice of hook that ignores the decision.
hookForPass(allowed) == "onPass"

\* The hook RateLimiter.isAllowed calls for a decision.
hookFor(allowed) == IF allowed THEN "onPass" ELSE "onLimitReached"

\* callHook(name, ...): the invocations it makes, name being configured
\* with a hook of this kind.
hooksInvoked(counts, name, hook, onError) ==
    IF hook = "none" THEN counts
    ELSE LET c1 == [counts EXCEPT ![name] = @ + 1]
         IN IF hook = "throws" /\ onError # "none"
            THEN [c1 EXCEPT !["onError"] = @ + 1]
            ELSE c1

\* The catch block of RateLimiter.isAllowed: callHook("onError", error).
catchInvokes(counts, onError) == hooksInvoked(counts, "onError", onError, onError)

\* The call is issued: the synchronous part up to the first await.
LimiterStart(i, key) ==
    /\ pc[i] = "idle"
    /\ \A j \in Calls : j < i => pc[j] # "idle"
    /\ stats' = countRequest(stats)
    /\ issuedAt' = IF i = 1 THEN now ELSE issuedAt
    /\ concurrent' = (concurrent /\ \A j \in Calls : pc[j] # "done")
    /\ \/ /\ cfg.strategy = "fixed"
          /\ Commit(EnforceCap(FW, cfg.maxStoreSize))
          /\ IF InvalidInput(key, cfg.limit, cfg)
             THEN /\ pc' = [pc EXCEPT ![i] = "settled"]
                  /\ call' = [call EXCEPT ![i] = [NoCall EXCEPT !.key = key,
                                 !.threw = TRUE]]
                  /\ UNCHANGED lockQueue
             ELSE /\ pc' = [pc EXCEPT ![i] = "waiting"]
                  /\ call' = [call EXCEPT ![i] = [NoCall EXCEPT !.key = key]]
                  /\ lockQueue' = Append(lockQueue, i)
          /\ UNCHANGED otherStores
       \/ /\ cfg.strategy = "sliding"
          /\ LET r == slidingIsAllowed(slidingWindowStore, key, cfg.limit, cfg, now) IN
             /\ slidingWindowStore' = r.S
             /\ call' = [call EXCEPT ![i] = [NoCall EXCEPT !.key = key,
                            !.allowed = r.allowed]]
          /\ pc' = [pc EXCEPT ![i] = "settled"]
          /\ UNCHANGED <<fwVars, tokenBucketStore, lockQueue>>
       \/ /\ cfg.strategy = "tokenBucket"
          /\ LET r == tokenIsAllowed(tokenBucketStore, key, cfg.limit, cfg, now) IN
             /\ tokenBucketStore' = r.S
             /\ call' = [call EXCEPT ![i] = [NoCall EXCEPT !.key = key,
                            !.allowed = r.allowed]]
          /\ pc' = [pc EXCEPT ![i] = "settled"]
          /\ UNCHANGED <<fwVars, slidingWindowStore, lockQueue>>
    /\ UNCHANGED <<now, cfg, opts, histVars, hookCalls, resets, given, built,
                   instanceVars, lockVars, probeVars>>

\* The call at the head of the promise chain takes the lock, runs steps 1
\* to 4 without a suspension point, and unlocks.
LimiterDecide(i) ==
    /\ pc[i] = "waiting"
    /\ lockQueue # <<>> /\ Head(lockQueue) = i
    /\ LET r == LockedDecision(FW, call[i].key, cfg.limit, cfg, now) IN
       /\ Commit(r.S)
       /\ call' = [call EXCEPT ![i].allowed = r.allowed]
    /\ lockQueue' = Tail(lockQueue)
    /\ pc' = [pc EXCEPT ![i] = "settled"]
    /\ UNCHANGED <<now, cfg, opts, stats, otherStores, histVars, issuedAt,
                   concurrent, hookCalls, resets, given, built,
                   instanceVars, lockVars, probeVars>>

\* RateLimiter.isAllowed resumes after `await this.strategy.isAllowed`.
LimiterFinish(i) ==
    /\ pc[i] = "settled"
    /\ IF call[i].threw
       THEN /\ UNCHANGED stats
            /\ hookCalls' = catchInvokes(hookCalls, opts.onError)
            /\ call' = [call EXCEPT ![i].outcome = "threw"]
       ELSE LET name == hookFor(call[i].allowed)
                c1 == hooksInvoked(hookCalls, name, opts.hooks, opts.onError)
            IN /\ stats' = countDecision(stats, call[i].allowed)
               /\ hookCalls' = IF callHookThrows(opts.hooks, opts.onError)
                               THEN catchInvokes(c1, opts.onError) ELSE c1
               /\ call' = [call EXCEPT
                     ![i].outcome = limiterOutcome(opts, call[i].allowed,
                                                   opts.hooks, opts.onError),
                     ![i].invoked = IF opts.hooks = "none" THEN "none" ELSE name]
    /\ pc' = [pc EXCEPT ![i] = "done"]
    /\ UNCHANGED <<now, cfg, opts, fwVars, otherStores, lockQueue, histVars,
                   issuedAt, concurrent, resets, given, built,
                   instanceVars, lockVars, probeVars>>

\* The limiters of SpecConcurrent: hooks that return, no onError hook.
ConcurrentOptions == [dryRun : DryRuns, silent : {FALSE}, hooks : {"returns"},
                      onError : {"none"}]

InitConcurrent ==
    /\ now = Epoch
    /\ cfg \in Configs
    /\ opts \in ConcurrentOptions
    /\ InitStores
    /\ InitHistory
    /\ InitLimiter

NextConcurrent ==
    \/ \E i \in Calls, key \in AnyKey : LimiterStart(i, key)
    \/ \E i \in Calls : LimiterDecide(i)
    \/ \E i \in Calls : LimiterFinish(i)
    \/ Tick

SpecConcurrent == InitConcurrent /\ [][NextConcurrent]_vars

\* RateLimiter.getActiveKeysCount: the placeholder it returns.
getActiveKeysCount == 0

\* RateLimiter.getStats()
getStats ==
    [totalRequests |-> stats.totalRequests, hits |-> stats.hits,
     rejections |-> stats.rejections, activeKeys |-> getActiveKeysCount]

(***************************************************************************)
(* A RateLimiter whose calls are awaited one after the other, with every   *)
(* combination of dryRun, silent and hooks.                                *)
(***************************************************************************)
\* await limiter.reset(key)
LimiterReset(key) ==
    /\ resets.n < MaxResets
    /\ LET threw == cfg.strategy = "fixed" /\ InvalidKey(key) IN
       /\ \/ /\ cfg.strategy = "fixed"
             /\ Commit(IF threw THEN FW ELSE resetKey(FW, key))
             /\ UNCHANGED otherStores
          \/ /\ cfg.strategy = "sliding"
             /\ slidingWindowStore' = MapDelete(slidingWindowStore, key)
             /\ UNCHANGED <<fwVars, tokenBucketStore>>
          \/ /\ cfg.strategy = "tokenBucket"
             /\ tokenBucketStore' = MapDelete(tokenBucketStore, key)
             /\ UNCHANGED <<fwVars, slidingWindowStore>>
       /\ hookCalls' = IF threw THEN hookCalls
                       ELSE hooksInvoked(hookCalls, "onReset", opts.hooks,
                                         opts.onError)
       /\ resets' = [n |-> resets.n + 1,
                     outcome |-> IF threw THEN "threw"
                                 ELSE IF callHookThrows(opts.hooks, opts.onError)
                                 THEN "hookThrew" ELSE "returned"]
    /\ UNCHANGED <<now, cfg, opts, stats, pc, call, lockQueue, issuedAt,
                   concurrent, histVars, given, built,
                   instanceVars, lockVars, probeVars>>

LimiterOptions == [dryRun : DryRuns, silent : Silents, hooks : HookKinds,
                   onError : HookKinds]

\* No call is in flight.
Quiet == \A j \in Calls : pc[j] \in {"idle", "done"}

InitLimiterSpec ==
    /\ now = Epoch
    /\ cfg \in Configs
    /\ opts \in LimiterOptions
    /\ InitStores
    /\ InitHistory
    /\ InitLimiter

NextLimiter ==
    \/ Quiet /\ \E i \in Calls, key \in AnyKey : LimiterStart(i, key)
    \/ \E i \in Calls : LimiterDecide(i)
    \/ \E i \in Calls : LimiterFinish(i)
    \/ Quiet /\ \E key \in AnyKey : LimiterReset(key)
    \/ Tick

SpecLimiter == InitLimiterSpec /\ [][NextLimiter]_vars

(***************************************************************************)
(* Construction of a RateLimiter: applyDefaults, then throwIfInvalid.      *)
(***************************************************************************)
\* typeof v === "number"
IsNumber(v) == v \in NumberValues
\* v <= 0 for a number v; NaN compares false.
NotPositive(v) == v \in {"-1", "0"}
\* JavaScript truthiness of a config value.
Truthy(v) == v \notin {Absent, "0", "NaN", ""}

\* applyDefaults: the defaults, overridden by the fields that are given.
applyDefaults(config) ==
    [limit |-> IF config.limit = Absent THEN "100" ELSE config.limit,
     windowInSeconds |-> IF config.windowInSeconds = Absent THEN "60"
                         ELSE config.windowInSeconds,
     strategy |-> IF config.strategy = Absent THEN "fixed" ELSE config.strategy,
     maxStoreSize |-> config.maxStoreSize,
     cleanupInterval |-> config.cleanupInterval]

\* validateConfig: the fields it reports, in the order it reports them.
validateConfig(config) ==
    (IF config.limit # "function"
        /\ (~IsNumber(config.limit) \/ NotPositive(config.limit))
     THEN <<"limit">> ELSE <<>>)
    \o (IF ~IsNumber(config.windowInSeconds) \/ NotPositive(config.windowInSeconds)
        THEN <<"windowInSeconds">> ELSE <<>>)
    \o (IF Truthy(config.strategy)
           /\ config.strategy \notin {"fixed", "sliding", "tokenBucket"}
        THEN <<"strategy">> ELSE <<>>)
    \o (IF Truthy(config.maxStoreSize)
           /\ (~IsNumber(config.maxStoreSize) \/ NotPositive(config.maxStoreSize))
        THEN <<"limiterConfig.maxStoreSize">> ELSE <<>>)
    \o (IF Truthy(config.cleanupInterval)
           /\ (~IsNumber(config.cleanupInterval)
               \/ NotPositive(config.cleanupInterval))
        THEN <<"limiterConfig.cleanupInterval">> ELSE <<>>)

\* The RateLimiter constructor, up to createStrategy.
construct(config) ==
    LET full == applyDefaults(config)
        errors == validateConfig(full)
    IN IF Len(errors) > 0
       THEN [status |-> "threw", errors |-> errors, config |-> full]
       ELSE [status |-> "constructed", errors |-> <<>>, config |-> full]

LimitValues == {Absent, "function", "text"} \cup (NumberValues \ {"60"})
WindowValues == {Absent, "function", "text"} \cup (NumberValues \ {"100"})
StrategyValues == {Absent, "fixed", "sliding", "tokenBucket", "text", ""}
SizeValues == {Absent, "text", "-1", "0", "1", "NaN", "Infinity"}
GivenConfigs == [limit : LimitValues, windowInSeconds : WindowValues,
                 strategy : StrategyValues, maxStoreSize : SizeValues,
                 cleanupInterval : SizeValues]

\* new RateLimiter(given)
Construct ==
    /\ built.status = "none"
    /\ built' = construct(given)
    /\ UNCHANGED <<now, cfg, opts, fwVars, otherStores, histVars, stats, pc, call,
                   lockQueue, issuedAt, concurrent, hookCalls, resets, given,
                   instanceVars, lockVars, probeVars>>

InitConstruct ==
    /\ now = Epoch
    /\ cfg \in {c \in Configs : c.strategy = "fixed" /\ c.limit = 1
                                /\ c.maxStoreSize = 1}
    /\ opts = PlainOptions
    /\ InitStores
    /\ InitHistory
    /\ stats = [totalRequests |-> 0, hits |-> 0, rejections |-> 0]
    /\ pc = [i \in Calls |-> "idle"]
    /\ call = [i \in Calls |-> NoCall]
    /\ lockQueue = <<>>
    /\ issuedAt = 0
    /\ concurrent = TRUE
    /\ hookCalls = [h \in HookNames |-> 0]
    /\ resets = [n |-> 0, outcome |-> "none"]
    /\ given \in GivenConfigs
    /\ built = NotBuilt
    /\ InitInstances
    /\ InitProbes

SpecConstruct == InitConstruct /\ [][Construct]_vars

(***************************************************************************)
(* Two strategy instances of one type and configuration.  The stores are   *)
(* module variables, so both instances work on the same maps; `alone` is   *)
(* what the stores would hold if only this instance had been used.         *)
(***************************************************************************)
Shared == [fw |-> FW, sliding |-> slidingWindowStore,
           tokenBucket |-> tokenBucketStore]

\* strategy.isAllowed(key) of the configured strategy on the stores st.
strategyIsAllowed(st, key, c, currentTime) ==
    IF c.strategy = "fixed"
    THEN LET r == FixedIsAllowed(st.fw, key, c, currentTime)
         IN [st |-> [st EXCEPT !.fw = [Collect(r.S) EXCEPT !.evicted = <<>>]],
             allowed |-> r.allowed, threw |-> r.threw]
    ELSE IF c.strategy = "sliding"
    THEN LET r == slidingIsAllowed(st.sliding, key, c.limit, c, currentTime)
         IN [st |-> [st EXCEPT !.sliding = r.S],
             allowed |-> r.allowed, threw |-> r.threw]
    ELSE LET r == tokenIsAllowed(st.tokenBucket, key, c.limit, c, currentTime)
         IN [st |-> [st EXCEPT !.tokenBucket = r.S],
             allowed |-> r.allowed, threw |-> r.threw]

\* strategy.reset(key) of the configured strategy on the stores st.
strategyReset(st, key, c) ==
    IF c.strategy = "fixed"
    THEN IF InvalidKey(key) THEN st
         ELSE [st EXCEPT !.fw = [Collect(resetKey(st.fw, key))
                                    EXCEPT !.evicted = <<>>]]
    ELSE IF c.strategy = "sliding"
    THEN [st EXCEPT !.sliding = MapDelete(st.sliding, key)]
    ELSE [st EXCEPT !.tokenBucket = MapDelete(st.tokenBucket, key)]

Install(st) ==
    /\ Commit(st.fw)
    /\ slidingWindowStore' = st.sliding
    /\ tokenBucketStore' = st.tokenBucket

\* await thisInstance.isAllowed(key)
ThisInstanceCall(key) ==
    /\ tally.mine < MaxCalls
    /\ LET r == strategyIsAllowed(Shared, key, cfg, now)
           r0 == strategyIsAllowed(alone, key, cfg, now)
       IN /\ Install(r.st)
          /\ alone' = r0.st
          /\ agree' = (agree /\ r.allowed = r0.allowed /\ r.threw = r0.threw)
    /\ tally' = [tally EXCEPT !.mine = @ + 1]
    /\ UNCHANGED <<now, cfg, histVars, limiterVars, lockVars, probeVars>>

\* await otherInstance.isAllowed(key)
OtherInstanceCall(key) ==
    /\ tally.theirs < MaxOtherCalls
    /\ Install(strategyIsAllowed(Shared, key, cfg, now).st)
    /\ tally' = [tally EXCEPT !.theirs = @ + 1]
    /\ UNCHANGED <<now, cfg, histVars, limiterVars, alone, agree, lockVars, probeVars>>

\* await otherInstance.reset(key)
OtherInstanceReset(key) ==
    /\ tally.theirs < MaxOtherCalls
    /\ Install(strategyReset(Shared, key, cfg))
    /\ tally' = [tally EXCEPT !.theirs = @ + 1]
    /\ UNCHANGED <<now, cfg, histVars, limiterVars, alone, agree, lockVars, probeVars>>

NextInstances ==
    \/ \E key \in CallKeys : ThisInstanceCall(key)
    \/ \E key \in CallKeys : OtherInstanceCall(key)
    \/ \E key \in CallKeys : OtherInstanceReset(key)
    \/ Tick

SpecInstances == Init /\ [][NextInstances]_vars

(***************************************************************************)
(* Properties of the strategies (Spec; C8 under SpecLru).                  *)
(***************************************************************************)
\* The last operation was a decision for a valid key that returned.
Decided == last.op = "isAllowed" /\ last.key \in Keys /\ ~last.threw
\* The calls of the key decided last, since it was last found fresh.
LastRun == run[last.key]

\* C1: fixed window: of the L+1 calls that a key absent from the store
\* receives within W of the first of them, the first L return true and the
\* (L+1)-th returns false.
C1_FixedQuotaFromAbsent ==
    (cfg.strategy = "fixed" /\ Decided
        /\ LastRun.n <= cfg.limit + 1
        /\ last.at < LastRun.first + windowMs(cfg))
    => (last.allowed <=> LastRun.n <= cfg.limit)

\* C2: sliding window: the allowed decisions of a key whose times lie in one
\* interval of length W are never more than L.
C2_SlidingNeverOverLimit ==
    cfg.strategy = "sliding" =>
        \A k \in Keys :
            Len(SelectSeq(allowedAt[k], LAMBDA t : t > now - windowMs(cfg)))
                <= cfg.limit

\* C3: token bucket: a key that is absent, or idle for at least W, is
\* allowed exactly L calls made at one instant; the (L+1)-th call at that
\* instant is rejected.
C3_TokenBurstIsLimit ==
    (cfg.strategy = "tokenBucket" /\ Decided
        /\ last.at = LastRun.first
        /\ LastRun.n <= cfg.limit + 1)
    => (last.allowed <=> LastRun.n <= cfg.limit)

\* C4: token bucket: a call that finds the bucket left with fewer than one
\* token is allowed only if at least W/L has passed since the call that left
\* it so.
C4_NextAllowedAfterWOverL ==
    (cfg.strategy = "tokenBucket" /\ Decided /\ last.allowed
        /\ last.before.present /\ last.before.tokens < windowMs(cfg))
    => (last.at - last.before.lastRefill) * cfg.limit >= windowMs(cfg)

\* C7: no strategy's store holds more than maxStoreSize Key Records at the
\* end of a call.
C7_StoreWithinCapacity ==
    /\ Cardinality(DOMAIN memoryStore) <= cfg.maxStoreSize
    /\ Len(slidingWindowStore) <= cfg.maxStoreSize
    /\ Len(tokenBucketStore) <= cfg.maxStoreSize

\* C7 witness: a store that is full after more distinct keys were decided
\* than it can hold.
C7_Witness ==
    /\ last.op = "isAllowed" /\ ~last.threw
    /\ calls > cfg.maxStoreSize
    /\ last.key \notin {recency[i] : i \in 2..Len(recency)}
    /\ Cardinality(StoredKeys) = cfg.maxStoreSize
    /\ cfg.maxStoreSize >= 2
    /\ ~(StoredKeys \subseteq {last.key})

\* C8: fixed window: every key that capacity enforcement evicts is the one
\* whose last decision is the oldest among the keys stored at that moment.
C8_VictimIsLeastRecent ==
    \A i \in 1..Len(last.evicted) :
        last.evicted[i].victim = last.evicted[i].lru

\* C8 witness: a victim chosen among several stored keys, evicted before its
\* window has expired.
C8_Witness ==
    \E i \in 1..Len(last.evicted) :
        last.evicted[i].live /\ last.evicted[i].choices >= 3

AllDone == \A i \in Calls : pc[i] = "done"
Allowed == {i \in Calls : call[i].allowed}
\* MaxInFlight calls for one key, issued before any completed, all decided
\* inside the window that began with the first of them.
ConcurrentBurst ==
    /\ AllDone
    /\ concurrent
    /\ \E k \in Keys : \A i \in Calls : call[i].key = k
    /\ now < issuedAt + windowMs(cfg)

\* C5: N calls for one fresh key issued concurrently inside one window,
\* with static limit L < N, yield exactly L allowed decisions and N - L
\* rejected ones, for each of the three strategies.
C5_ConcurrentExactlyL ==
    (ConcurrentBurst /\ cfg.limit < MaxInFlight)
        => /\ Cardinality(Allowed) = cfg.limit
           /\ Cardinality(Calls \ Allowed) = MaxInFlight - cfg.limit

\* C6: on the fixed-window store, among concurrent calls for one key in one
\* window the allowed ones are exactly the first L arrivals, arrival being
\* the order in which the calls invoked acquireLock.
C6_FirstLArrivalsAllowed ==
    (cfg.strategy = "fixed" /\ ConcurrentBurst)
        => \A i \in Calls : call[i].allowed <=> i <= cfg.limit

\* C10: whenever getStats() is read, also with decisions in
\* flight and after a decision ended with an error,
\* totalRequests = hits + rejections.
C10_TotalIsHitsPlusRejections ==
    stats.totalRequests = stats.hits + stats.rejections

(***************************************************************************)
(* Statistics of the fixed-window store (specification Spec).              *)
(***************************************************************************)
\* The sum of f[k].hits, or of f[k].rejections, over the keys of ks.
RECURSIVE SumHits(_, _)
SumHits(f, ks) ==
    IF ks = {} THEN 0
    ELSE LET k == CHOOSE x \in ks : TRUE IN f[k].hits + SumHits(f, ks \ {k})

RECURSIVE SumRejections(_, _)
SumRejections(f, ks) ==
    IF ks = {} THEN 0
    ELSE LET k == CHOOSE x \in ks : TRUE
         IN f[k].rejections + SumRejections(f, ks \ {k})

\* C11: fixed-window store with enablePerKeyStats: the per-key hits sum to
\* the global hits counter and the per-key rejections to the global
\* rejections counter, in every reachable state.
C11_PerKeySumsToGlobal ==
    (cfg.strategy = "fixed" /\ cfg.enablePerKeyStats)
        => /\ SumHits(perKeyStats, DOMAIN perKeyStats) = hits
           /\ SumRejections(perKeyStats, DOMAIN perKeyStats) = rejections

(***************************************************************************)
(* Properties of the RateLimiter (specification SpecLimiter).              *)
(***************************************************************************)
\* The calls that returned a value.
Returned == {i \in Calls : pc[i] = "done" /\ call[i].outcome # "threw"}
\* The calls whose strategy decided, allowing or rejecting.
DecidedCalls == {i \in Calls : pc[i] = "done" /\ ~call[i].threw}

\* C12: with dryRun every call of RateLimiter.isAllowed that returns,
\* returns true; without dryRun it returns the strategy's decision, with
\* silent as without.
C12_ReturnValue ==
    \A i \in Returned :
        IF opts.dryRun THEN call[i].outcome = "true"
        ELSE call[i].outcome = (IF call[i].allowed THEN "true" ELSE "false")

\* C12 witness: a dryRun call that the strategy rejected and that returned
\* true.
C12_Witness ==
    /\ opts.dryRun
    /\ \E i \in Returned : ~call[i].allowed /\ call[i].outcome = "true"

\* The decisions so far were all for one valid key, inside the window that
\* began with the first, and no reset was made.
OneKeyOneWindow ==
    /\ DecidedCalls # {}
    /\ \E k \in Keys : \A i \in Calls : pc[i] # "idle" => call[i].key = k
    /\ Quiet
    /\ resets.n = 0
    /\ now < issuedAt + windowMs(cfg)

C14_HookErrorsNeverEscape ==
    /\ \A i \in DecidedCalls : call[i].outcome # "threw"
    /\ resets.outcome # "hookThrew"

\* C15: with hooks configured, every decision that completes invokes the
\* one hook that matches it, onPass when the strategy allowed and
\* onLimitReached when it rejected; the onPass calls number hits and the
\* onLimitReached calls number rejections.
C15_OneMatchingHook ==
    opts.hooks # "none"
        => /\ \A i \in DecidedCalls :
                call[i].invoked = (IF call[i].allowed THEN "onPass"
                                   ELSE "onLimitReached")
           /\ hookCalls["onPass"] = stats.hits
           /\ hookCalls["onLimitReached"] = stats.rejections
           /\ hookCalls["onPass"] + hookCalls["onLimitReached"]
                = Cardinality(DecidedCalls)

\* C15 witness: hooks configured, an allowed and a rejected decision done.
C15_Witness ==
    /\ opts.hooks # "none" /\ Quiet
    /\ \E i, j \in DecidedCalls :
          /\ call[i].allowed /\ call[i].invoked = "onPass"
          /\ ~call[j].allowed /\ call[j].invoked = "onLimitReached"

(***************************************************************************)
(* Refused calls (specification Spec).                                     *)
(***************************************************************************)
\* C16: fixed window: a call that fails for an invalid key or limit leaves
\* the record map, expiry heap, recency list, counters and per-key stats as
\* they were, for isAllowedMemory and for FixedWindowStrategy.isAllowed.
C16_RefusedCallMutatesNothing ==
    (cfg.strategy = "fixed" /\ last.op = "isAllowed" /\ last.threw)
        => ~last.mutated

\* C17: for every strategy a decide or reset call with an empty key raises
\* an error and leaves no Key Record for that key.
C17_BlankKeyRefused ==
    (last.op \in {"isAllowed", "reset"} /\ last.key \in BlankKeys)
        => last.threw /\ last.key \notin StoredKeys

(***************************************************************************)
(* Construction (specification SpecConstruct).                             *)
(***************************************************************************)
\* A positive finite number.
PositiveFinite(v) == v \in {"1", "60", "100"}
\* A positive number.
PositiveNumber(v) == v \in {"1", "60", "100", "Infinity"}
\* The fields of a config that the claim calls invalid.
InvalidFields(config) ==
    {f \in {"limit"} :
        config.limit \notin {Absent, "function"} /\ ~PositiveFinite(config.limit)}
    \cup {f \in {"windowInSeconds"} :
        config.windowInSeconds # Absent /\ ~PositiveFinite(config.windowInSeconds)}
    \cup {f \in {"strategy"} :
        config.strategy \notin {Absent, "fixed", "sliding", "tokenBucket"}}
    \cup {f \in {"limiterConfig.maxStoreSize"} :
        config.maxStoreSize # Absent /\ ~PositiveNumber(config.maxStoreSize)}
    \cup {f \in {"limiterConfig.cleanupInterval"} :
        config.cleanupInterval # Absent /\ ~PositiveNumber(config.cleanupInterval)}

\* C18: constructing a RateLimiter fails, with one error naming every
\* invalid field, whenever a field is invalid; with the fields omitted it
\* constructs with limit 100, window 60 s and strategy fixed.
C18_ConstructionValidates ==
    built.status # "none"
        => /\ built.status = "threw" <=> InvalidFields(given) # {}
           /\ {built.errors[i] : i \in 1..Len(built.errors)} = InvalidFields(given)
           /\ given = NoConfig
                => /\ built.status = "constructed"
                   /\ built.config.limit = "100"
                   /\ built.config.windowInSeconds = "60"
                   /\ built.config.strategy = "fixed"

(***************************************************************************)
(* Instances (specification SpecInstances).                                *)
(***************************************************************************)
\* C19: the decisions an instance returns are the ones it would return if
\* no decision, reset or eviction had happened through another instance.
C19_InstancesShareNoState == agree

\* C20: getStats().activeKeys is the number of keys the limiter's strategy
\* store holds.
C20_ActiveKeysIsStoreSize ==
    getStats.activeKeys = Cardinality(StoredKeys)

(***************************************************************************)
(* The lock of the fixed-window store.  acquireLock chains the caller on   *)
(* lockPromise; the caller resumes once its predecessor has called         *)
(* unlock(), runs its try block without a suspension point and unlocks in  *)
(* the finally block.  An operation may be issued from any continuation,   *)
(* also between another operation's acquireLock and its try block; the     *)
(* interval callback is a timer task and runs only when no continuation    *)
(* is pending.                                                             *)
(***************************************************************************)
LockOps == {"isAllowedMemory", "isAllowed", "resetKey", "resetAll", "getMetrics"}

\* The operations between acquiring and releasing the lock.
Holders == {i \in Calls : pc[i] = "holding"}

\* History of a step by `who` that does not hold the lock.
WithoutLock(who) ==
    unguarded' = IF fwVars' # fwVars THEN unguarded \cup {who} ELSE unguarded

\* The operation is issued: everything up to `await acquireLock()`.
LockRequest(i, op, key) ==
    /\ pc[i] = "idle"
    /\ \A j \in Calls : j < i => pc[j] # "idle"
    /\ kind' = [kind EXCEPT ![i] = op]
    /\ LET refused == \/ op \in {"isAllowedMemory", "isAllowed"}
                         /\ InvalidInput(key, cfg.limit, cfg)
                      \/ op = "resetKey" /\ InvalidKey(key)
       IN /\ IF op = "isAllowed"
             THEN Commit(EnforceCap(FW, cfg.maxStoreSize))
             ELSE UNCHANGED fwVars
          /\ WithoutLock(op)
          /\ call' = [call EXCEPT ![i] = [NoCall EXCEPT !.key = key,
                                                        !.threw = refused]]
          /\ pc' = [pc EXCEPT ![i] = IF refused THEN "done" ELSE "waiting"]
          /\ lockQueue' = IF refused THEN lockQueue ELSE Append(lockQueue, i)
    /\ UNCHANGED <<now, cfg, opts, stats, otherStores, histVars, issuedAt,
                   concurrent, hookCalls, resets, given, built, instanceVars,
                   probeVars>>

\* `await currentLock` is over: the predecessor has unlocked.
LockAcquire(i) ==
    /\ pc[i] = "waiting"
    /\ lockQueue # <<>> /\ Head(lockQueue) = i
    /\ pc' = [pc EXCEPT ![i] = "holding"]
    /\ UNCHANGED <<now, cfg, opts, stats, call, lockQueue, fwVars, otherStores,
                   histVars, issuedAt, concurrent, hookCalls, resets, given,
                   built, instanceVars, lockVars, probeVars>>

\* The try block of the operation, and unlock() in its finally block.
LockedBody(i) ==
    /\ pc[i] = "holding"
    /\ \/ /\ kind[i] \in {"isAllowedMemory", "isAllowed"}
          /\ LET r == LockedDecision(FW, call[i].key, cfg.limit, cfg, now) IN
             /\ Commit(r.S)
             /\ call' = [call EXCEPT ![i].allowed = r.allowed,
                                     ![i].outcome = "returned"]
       \/ /\ kind[i] = "resetKey"
          /\ Commit(resetKey(FW, call[i].key))
          /\ call' = [call EXCEPT ![i].outcome = "returned"]
       \/ /\ kind[i] = "resetAll"
          /\ Commit(EmptyFW)
          /\ call' = [call EXCEPT ![i].outcome = "returned"]
       \/ /\ kind[i] = "getMetrics"
          /\ UNCHANGED fwVars
          /\ call' = [call EXCEPT ![i].outcome = "returned"]
    /\ lockQueue' = Tail(lockQueue)
    /\ pc' = [pc EXCEPT ![i] = "done"]
    /\ UNCHANGED <<now, cfg, opts, stats, otherStores, histVars, issuedAt,
                   concurrent, hookCalls, resets, given, built, instanceVars,
                   lockVars, probeVars>>

\* The interval callback of startGC runs: sweepExpiredKeys and the capacity
\* loop, neither after an acquireLock.
LockGcFires ==
    /\ \A i \in Calls : pc[i] \in {"idle", "done"}
    /\ Commit(fixedGcCallback(FW, cfg, now))
    /\ WithoutLock("gc")
    /\ UNCHANGED <<now, cfg, otherStores, histVars, limiterVars, instanceVars,
                   kind, probeVars>>

LockConfigs == {c \in Configs : c.strategy = "fixed"}

InitLock ==
    /\ now = Epoch
    /\ cfg \in LockConfigs
    /\ opts = PlainOptions
    /\ InitStores
    /\ InitHistory
    /\ InitLimiter

NextLock ==
    \/ \E i \in Calls, op \in LockOps, key \in AnyKey : LockRequest(i, op, key)
    \/ \E i \in Calls : LockAcquire(i)
    \/ \E i \in Calls : LockedBody(i)
    \/ LockGcFires
    \/ Tick

SpecLock == InitLock /\ [][NextLock]_vars

(***************************************************************************)
(* Properties of the lock (SpecLock).                                      *)
(***************************************************************************)
\* C21: fixed-window store lock: at most one of isAllowedMemory, resetKey,
\* resetAll and getMetrics is between acquiring and releasing the lock, and
\* no request-path operation changes the record map, the heap, the recency
\* list or the counters while it does not hold the lock.
C21_MutationsUnderLock ==
    /\ Cardinality(Holders) <= 1
    /\ unguarded \cap LockOps = {}

\* C22: the background reclaimer sweeps and evicts only after it has acquired
\* the lock of the request path: it never changes the store without holding
\* that lock.
C22_ReclaimerTakesLock == "gc" \notin unguarded

(***************************************************************************)
(* Background reclaim of the fixed-window store.  The interval timer keeps *)
(* firing and the clock keeps advancing (it is followed until the expiry   *)
(* of every stored record has passed); requests may stop at any point.     *)
(***************************************************************************)
ReclaimBatchCaps == {1, 2}
ReclaimConfigs == [strategy : {"fixed"}, limit : {1}, windowInSeconds : Windows,
                   maxStoreSize : LruStoreSizes,
                   cleanupInterval : CleanupIntervals,
                   enablePerKeyStats : {TRUE}, maxBatchCleanup : ReclaimBatchCaps]

\* The records whose expiry has passed.
ExpiredKeys == {k \in DOMAIN memoryStore : memoryStore[k].expiresAt <= now}

\* What the interval callback of startGC leaves, and its record in the
\* history (with whether it removed a record).
ReclaimResult == fixedGcCallback(FW, cfg, now)
ReclaimRecord ==
    [NoOp EXCEPT !.op = "gc", !.evicted = EvictionLog(ReclaimResult, now),
                 !.mutated = DOMAIN ReclaimResult.memoryStore # DOMAIN memoryStore]

ReclaimFires ==
    /\ Commit(ReclaimResult)
    /\ History(recency, run, DOMAIN ReclaimResult.memoryStore)
    /\ last' = ReclaimRecord
    /\ UNCHANGED <<now, cfg, otherStores, wasReset, allowedAt, calls, limiterVars,
                   instanceVars, lockVars, probeVars>>

\* ENABLED <<ReclaimFires>>_vars as a state predicate: the callback pops an
\* expiry entry, removes a record, or is the first firing since a decision.
ReclaimWouldAct ==
    \/ ReclaimResult.heap # heap
    \/ DOMAIN ReclaimResult.memoryStore # DOMAIN memoryStore
    \/ ReclaimRecord # last

\* WF_vars(ReclaimFires), with the enabling condition written out.
ReclaimFairness == []<>(~ReclaimWouldAct) \/ []<><<ReclaimFires>>_vars

\* Time passes, as long as a stored record has not expired.
ReclaimTick ==
    /\ ExpiredKeys # DOMAIN memoryStore
    /\ now' = now + TickMs
    /\ UNCHANGED <<cfg, fwVars, otherStores, histVars, limiterVars, instanceVars,
                   lockVars, probeVars>>

InitReclaim ==
    /\ now = Epoch
    /\ cfg \in ReclaimConfigs
    /\ opts = PlainOptions
    /\ InitStores
    /\ InitHistory
    /\ InitLimiter

NextReclaim ==
    \/ \E key \in Keys : MemoryDecision(key, MaxReclaimCalls)
    \/ \E key \in Keys : StrategyDecision(key, MaxReclaimCalls)
    \/ ReclaimFires
    \/ ReclaimTick

SpecReclaim ==
    InitReclaim /\ [][NextReclaim]_vars
    /\ ReclaimFairness /\ WF_vars(ReclaimTick)

\* C23: fixed window background reclaim: with the timer firing and time
\* advancing, every stored record is eventually removed, also when no request
\* follows its creation, for every number of stored keys and batch cap.
C23_SweepReclaimsIdleKeys ==
    \A k \in Keys : (k \in DOMAIN memoryStore) ~> (k \notin DOMAIN memoryStore)

\* The sweep removed a record and, its batch cap reached, left another
\* expired record for a later firing.
C23_Witness ==
    /\ last.op = "gc"
    /\ last.mutated
    /\ ExpiredKeys # {}

(***************************************************************************)
(* Background reclaim of the sliding-window and token-bucket stores, with  *)
(* the clock followed until more than a window has passed.                 *)
(***************************************************************************)
SweepConfigs == {c \in Configs : c.strategy \in {"sliding", "tokenBucket"}}

SweepTick ==
    /\ now < Epoch + MaxSweepTicks * TickMs
    /\ now' = now + TickMs
    /\ allowedAt' = [k \in Keys |-> Recent(allowedAt[k])]
    /\ UNCHANGED <<cfg, fwVars, otherStores, recency, run, wasReset, last, calls,
                   limiterVars, instanceVars, lockVars, probeVars>>

\* The interval callback of the strategy's startGC runs.
SweepFires ==
    /\ \/ /\ cfg.strategy = "sliding"
          /\ slidingWindowStore' = slidingSweep(slidingWindowStore, cfg, now)
          /\ UNCHANGED tokenBucketStore
       \/ /\ cfg.strategy = "tokenBucket"
          /\ tokenBucketStore' = tokenSweep(tokenBucketStore, cfg, now)
          /\ UNCHANGED slidingWindowStore
    /\ History(recency, run, MapKeys(slidingWindowStore') \cup MapKeys(tokenBucketStore'))
    /\ last' = [NoOp EXCEPT !.op = "gc", !.at = now]
    /\ UNCHANGED <<now, cfg, fwVars, wasReset, allowedAt, calls, limiterVars,
                   instanceVars, lockVars, probeVars>>

InitSweep ==
    /\ now = Epoch
    /\ cfg \in SweepConfigs
    /\ opts = PlainOptions
    /\ InitStores
    /\ InitHistory
    /\ InitLimiter

NextSweep ==
    \/ \E key \in CallKeys : SlidingCall(key)
    \/ \E key \in CallKeys : TokenCall(key)
    \/ SweepFires
    \/ SweepTick

SpecSweep == InitSweep /\ [][NextSweep]_vars

\* The stored keys whose only request lies more than a window back.
IdleKeys ==
    {k \in StoredKeys \cap Keys :
        run[k].n = 1 /\ now - run[k].first > windowMs(cfg)}

\* C24: sliding window and token bucket background reclaim: when the sweep
\* has just run, the store holds no record whose last request lies more than
\* a full window back, whatever timestamps or token balance the record holds.
C24_SweepRemovesIdleRecord == last.op = "gc" /\ last.at = now => IdleKeys = {}

(***************************************************************************)
(* A limit that is a function of the request: every call resolves its own  *)
(* limit (getLimit(req)) and hands it to the strategy.                     *)
(***************************************************************************)
\* The keys the stores st hold a record of, for the configured strategy.
StoredIn(st) ==
    IF cfg.strategy = "fixed" THEN DOMAIN st.fw.memoryStore
    ELSE IF cfg.strategy = "sliding" THEN MapKeys(st.sliding)
    ELSE MapKeys(st.tokenBucket)

\* The call finds key with its full quota: absent, or idle for a window
\* under the token bucket.
FoundFresh(key) ==
    \/ key \notin StoredIn(Shared)
    \/ /\ cfg.strategy = "tokenBucket"
       /\ now - MapGet(tokenBucketStore, key).lastRefill >= windowMs(cfg)

\* await strategy.isAllowed(key, req), config.limit a function that returns
\* limit for req
AdaptiveCall(key, limit) ==
    /\ calls < MaxCalls
    /\ LET r == strategyIsAllowed(Shared, key, [cfg EXCEPT !.limit = limit], now)
           fresh == FoundFresh(key)
       IN /\ Install(r.st)
          /\ RecordDecision(key, r, fresh, StoredIn(r.st), <<>>, NoBefore, FALSE)
          /\ resolved' = limit
          /\ grants' = [k \in Keys |->
                IF k \notin StoredIn(r.st) THEN 0
                ELSE IF k # key THEN grants[k]
                ELSE (IF fresh THEN 0 ELSE grants[k])
                     + (IF r.allowed THEN 1 ELSE 0)]
    /\ UNCHANGED <<now, cfg, limiterVars, instanceVars, lockVars, activated, ghosts, inHeap, timerVars>>

\* The static limit of these configurations is not read.
AdaptiveConfigs == {c \in Configs : c.limit = 1 /\ c.maxStoreSize = 2}

InitAdaptive ==
    /\ now = Epoch
    /\ cfg \in AdaptiveConfigs
    /\ opts = PlainOptions
    /\ InitStores
    /\ InitHistory
    /\ InitLimiter

NextAdaptive ==
    \/ \E key \in CallKeys, limit \in Limits : AdaptiveCall(key, limit)
    \/ Tick

SpecAdaptive == InitAdaptive /\ [][NextAdaptive]_vars

\* The allowances the key decided last had in its window before that call.
GrantsBefore == grants[last.key] - (IF last.allowed THEN 1 ELSE 0)

\* The last call lies in the window its key's first call opened (for the
\* token bucket: at the instant of that call, before any refill).
InFirstWindow ==
    IF cfg.strategy = "tokenBucket" THEN last.at = LastRun.first
    ELSE last.at - LastRun.first < windowMs(cfg)

\* C25: with limit a function of the context, every decision is made against
\* the limit resolved for that call: the call is allowed exactly when its
\* key has had fewer allowances in the window than that limit, also when the
\* record was created by a call that resolved a different limit.
C25_DecisionUsesResolvedLimit ==
    Decided /\ InFirstWindow => (last.allowed <=> GrantsBefore < resolved)

(***************************************************************************)
(* getState.  The state it returns is modelled by remaining and limit;     *)
(* what matters here is what the call leaves in the store.                 *)
(***************************************************************************)
\* SlidingWindowStrategy.getState: it writes the filtered timestamps back.
slidingGetState(m, key, limit, c, currentTime) ==
    IF ~MapHas(m, key)
    THEN [S |-> m, state |-> [remaining |-> limit, limit |-> limit]]
    ELSE LET entry == MapGet(m, key)
             kept == SelectSeq(entry.timestamps,
                               LAMBDA ts : ts > currentTime - windowMs(c))
         IN [S |-> MapSet(m, [entry EXCEPT !.timestamps = kept]),
             state |-> [remaining |-> IF limit > Len(kept)
                                      THEN limit - Len(kept) ELSE 0,
                        limit |-> limit]]

\* TokenBucketStrategy.getState: the refill is computed, not stored.
tokenGetState(m, key, limit, c, currentTime) ==
    IF ~MapHas(m, key)
    THEN [S |-> m, state |-> [remaining |-> limit, limit |-> limit]]
    ELSE LET entry == MapGet(m, key)
             tokensToAdd == (currentTime - entry.lastRefill) * entry.refillRate
             currentTokens == Min(entry.capacity * windowMs(c),
                                  entry.tokens + tokensToAdd)
         IN [S |-> m,
             state |-> [remaining |-> currentTokens \div windowMs(c),
                        limit |-> limit]]

\* FixedWindowStrategy.getState: the dummy it returns.
fixedGetState(S, key, limit) ==
    [S |-> S, state |-> [remaining |-> 0, limit |-> limit]]

\* RateLimiter.getState(key): strategy.getState(key) on the stores st.
strategyGetState(st, key, c, currentTime) ==
    IF c.strategy = "fixed"
    THEN [st |-> st, state |-> fixedGetState(st.fw, key, c.limit).state]
    ELSE IF c.strategy = "sliding"
    THEN LET r == slidingGetState(st.sliding, key, c.limit, c, currentTime)
         IN [st |-> [st EXCEPT !.sliding = r.S], state |-> r.state]
    ELSE LET r == tokenGetState(st.tokenBucket, key, c.limit, c, currentTime)
         IN [st |-> [st EXCEPT !.tokenBucket = r.S], state |-> r.state]

\* The interval callback of the configured strategy on the stores st.
strategySweep(st, c, currentTime) ==
    IF c.strategy = "fixed"
    THEN [st EXCEPT !.fw = [Collect(fixedGcCallback(st.fw, c, currentTime))
                               EXCEPT !.evicted = <<>>]]
    ELSE IF c.strategy = "sliding"
    THEN [st EXCEPT !.sliding = slidingSweep(st.sliding, c, currentTime)]
    ELSE [st EXCEPT !.tokenBucket = tokenSweep(st.tokenBucket, c, currentTime)]

(***************************************************************************)
(* One limiter, observed: `alone` is what the stores would hold had no     *)
(* getState been called; decisions and timer callbacks act on both.        *)
(***************************************************************************)
\* await limiter.isAllowed(key)
ProbedCall(key) ==
    /\ tally.mine < MaxProbedCalls
    /\ LET r == strategyIsAllowed(Shared, key, cfg, now)
           r0 == strategyIsAllowed(alone, key, cfg, now)
       IN /\ Install(r.st)
          /\ alone' = r0.st
          /\ agree' = (agree /\ r.allowed = r0.allowed /\ r.threw = r0.threw)
    /\ tally' = [tally EXCEPT !.mine = @ + 1]
    /\ UNCHANGED <<now, cfg, histVars, limiterVars, lockVars, probeVars>>

\* await limiter.getState(key)
ProbedGetState(key) ==
    /\ tally.theirs < MaxGetStates
    /\ Install(strategyGetState(Shared, key, cfg, now).st)
    /\ tally' = [tally EXCEPT !.theirs = @ + 1]
    /\ UNCHANGED <<now, cfg, histVars, limiterVars, alone, agree, lockVars,
                   probeVars>>

\* The interval callback of the strategy's startGC runs.
ProbedSweep ==
    /\ Install(strategySweep(Shared, cfg, now))
    /\ alone' = strategySweep(alone, cfg, now)
    /\ UNCHANGED <<now, cfg, histVars, limiterVars, tally, agree, lockVars,
                   probeVars>>

ReadOnlyConfigs == [strategy : Strategies, limit : {1}, windowInSeconds : Windows,
                    maxStoreSize : {3}, cleanupInterval : CleanupIntervals,
                    enablePerKeyStats : {TRUE}, maxBatchCleanup : BatchCaps]

InitReadOnly ==
    /\ now = Epoch
    /\ cfg \in ReadOnlyConfigs
    /\ opts = PlainOptions
    /\ InitStores
    /\ InitHistory
    /\ InitLimiter

NextReadOnly ==
    \/ \E key \in Keys : ProbedCall(key)
    \/ \E key \in Keys : ProbedGetState(key)
    \/ ProbedSweep
    \/ Tick

SpecReadOnly == InitReadOnly /\ [][NextReadOnly]_vars

\* C26: getState is read-only: with getState calls interleaved, every
\* decision of isAllowed is the one the same sequence of operations yields
\* without them.
C26_GetStateIsReadOnly == tally.theirs > 0 => agree

(***************************************************************************)
(* NestLimiterGuard.canActivate on a route that carries RateLimit          *)
(* metadata: every request builds a RateLimiter from the route config      *)
(* (cfg), whose strategy works on the stores of the module.                *)
(***************************************************************************)
\* How canActivate ends for what the RateLimiter's isAllowed does.
canActivate(outcome) ==
    IF outcome = "threw" THEN "Error"
    ELSE IF outcome = "false" THEN "UnauthorizedException"
    ELSE "true"

\* await guard.canActivate(context), the request's key being key
NestCanActivate(key) ==
    /\ calls < MaxCalls
    /\ LET r == strategyIsAllowed(Shared, key, cfg, now)
           outcome == IF r.threw THEN "threw"
                      ELSE limiterOutcome(opts, r.allowed, opts.hooks, opts.onError)
       IN /\ Install(r.st)
          /\ RecordDecision(key, r, FoundFresh(key), StoredIn(r.st), <<>>,
                            NoBefore, FALSE)
          /\ activated' = canActivate(outcome)
    /\ UNCHANGED <<now, cfg, limiterVars, instanceVars, lockVars, resolved, grants, ghosts, inHeap, timerVars>>

\* The route configs with limit 1.
RouteConfigs == {c \in Configs : c.limit = 1}

InitGuard ==
    /\ now = Epoch
    /\ cfg \in RouteConfigs
    /\ opts = PlainOptions
    /\ InitStores
    /\ InitHistory
    /\ InitLimiter

NextGuard ==
    \/ \E key \in CallKeys : NestCanActivate(key)
    \/ Tick

SpecGuard == InitGuard /\ [][NextGuard]_vars

\* C27: NestLimiterGuard with a route config of limit 1: the first
\* canActivate for a key returns true and the second for the same key, in
\* the same window, is refused with an UnauthorizedException.
C27_RouteLimitEnforced ==
    Decided =>
        /\ LastRun.n = 1 => activated = "true"
        /\ LastRun.n = 2 /\ InFirstWindow => activated = "UnauthorizedException"

(***************************************************************************)
(* The records of the fixed-window store (Spec).                           *)
(***************************************************************************)
\* C28: fixed window, static limit L: every stored record has
\* 1 <= count <= L in every reachable state, so a key receives at most L
\* allowances between the creation or refresh of its record and its removal
\* or next refresh.
C28_CountWithinLimit ==
    \A k \in DOMAIN memoryStore :
        /\ 1 <= memoryStore[k].count
        /\ memoryStore[k].count <= cfg.limit

\* A call refused with the key's record at count = L = 2.
C28_Witness ==
    /\ Decided
    /\ cfg.strategy = "fixed"
    /\ cfg.limit = 2
    /\ ~last.allowed
    /\ last.key \in DOMAIN memoryStore
    /\ memoryStore[last.key].count = cfg.limit

\* How many entries (key, expiresAt) the heap h holds.
HeapEntries(h, key, expiresAt) ==
    Cardinality({i \in DOMAIN h : h[i].key = key /\ h[i].expiresAt = expiresAt})

\* A step is a decision of the fixed-window store that did not throw.
FixedDecisionStep ==
    /\ cfg.strategy = "fixed"
    /\ calls' = calls + 1
    /\ last'.op = "isAllowed"
    /\ ~last'.threw

\* C29: fixed window: a decision for a key whose record is absent, or present
\* with expiresAt <= now, is allowed and leaves the record with count = 1
\* and expiresAt = now + W, one more expiry entry (key, now + W) on the heap
\* and the hit counter incremented by one.
C29_FreshDecision ==
    [][ /\ FixedDecisionStep
        /\ \/ last'.key \notin DOMAIN memoryStore
           \/ memoryStore[last'.key].expiresAt <= now
        => /\ last'.allowed
           /\ last'.key \in DOMAIN memoryStore'
           /\ memoryStore'[last'.key].count = 1
           /\ memoryStore'[last'.key].expiresAt = now + windowMs(cfg)
           /\ HeapEntries(heap', last'.key, now + windowMs(cfg))
                = HeapEntries(heap, last'.key, now + windowMs(cfg)) + 1
           /\ hits' = hits + 1 ]_vars

\* A key's second call found its record expired and refreshed it: the heap
\* holds the entry of the first window beside the new one.
C29_Witness ==
    /\ Decided
    /\ cfg.strategy = "fixed"
    /\ LastRun.n = 2
    /\ Len(last.evicted) = 0
    /\ last.at = now
    /\ last.allowed
    /\ last.key \in DOMAIN memoryStore
    /\ memoryStore[last.key].count = 1
    /\ memoryStore[last.key].expiresAt = now + windowMs(cfg)
    /\ HeapEntries(heap, last.key, LastRun.first + windowMs(cfg)) = 1
    /\ HeapEntries(heap, last.key, now + windowMs(cfg)) = 1
    /\ LastRun.first + windowMs(cfg) <= now

\* The per-key counters of key, zero when none are kept.
PerKeyOf(f, key) ==
    IF key \in DOMAIN f THEN f[key] ELSE [hits |-> 0, rejections |-> 0]

\* C30: fixed window: a rejected decision leaves the key's count and
\* expiresAt unchanged and pushes no expiry entry; the key becomes the most
\* recent one, the rejection counters grow by one, the hit counters and
\* every record that stays stored are as before.
C30_RejectionFrame ==
    [][ FixedDecisionStep /\ ~last'.allowed
        => /\ last'.key \in DOMAIN memoryStore
           /\ last'.key \in DOMAIN memoryStore'
           /\ memoryStore'[last'.key].count = memoryStore[last'.key].count
           /\ memoryStore'[last'.key].expiresAt
                = memoryStore[last'.key].expiresAt
           /\ memoryStore[last'.key].expiresAt > now
           /\ \A i \in DOMAIN heap' : \E j \in DOMAIN heap : heap'[i] = heap[j]
           /\ Len(heap') <= Len(heap)
           /\ \A k \in DOMAIN memoryStore' :
                /\ k \in DOMAIN memoryStore
                /\ memoryStore'[k].count = memoryStore[k].count
                /\ memoryStore'[k].expiresAt = memoryStore[k].expiresAt
           /\ lruHead' = memoryStore'[last'.key].lruNode
           /\ rejections' = rejections + 1
           /\ hits' = hits
           /\ PerKeyOf(perKeyStats', last'.key).rejections
                = PerKeyOf(perKeyStats, last'.key).rejections + 1
           /\ PerKeyOf(perKeyStats', last'.key).hits
                = PerKeyOf(perKeyStats, last'.key).hits ]_vars

\* A call refused after the clock moved on from the creation of the key's
\* record: the record still expires a window after its creation.
C30_Witness ==
    /\ Decided
    /\ cfg.strategy = "fixed"
    /\ ~last.allowed
    /\ last.at = now
    /\ now > LastRun.first
    /\ last.key \in DOMAIN memoryStore
    /\ memoryStore[last.key].expiresAt = LastRun.first + windowMs(cfg)
    /\ rejections > 0

(***************************************************************************)
(* The recency list, the expiry heap and the record map of the             *)
(* fixed-window store.                                                     *)
(***************************************************************************)
\* C31: fixed window: after a completed decision for key k, allowed or
\* rejected, k's record is stored and its node is the head of the recency
\* list.
C31_DecidedKeyIsHead ==
    Decided /\ cfg.strategy = "fixed"
    => /\ last.key \in DOMAIN memoryStore
       /\ lruHead = memoryStore[last.key].lruNode
       /\ nodes[lruHead].key = last.key
       /\ nodes[lruHead].prev = Null

\* A key found stored behind a key created after it, and decided: its older
\* node now heads the list before the younger one.
C31_Witness ==
    /\ Decided
    /\ cfg.strategy = "fixed"
    /\ LastRun.n >= 2
    /\ Len(last.evicted) = 0
    /\ last.key \in DOMAIN memoryStore
    /\ lruHead = memoryStore[last.key].lruNode
    /\ nodes[lruHead].next # Null
    /\ nodes[lruHead].next > lruHead

\* The fixed-window store under every operation that changes it: decisions
\* with their in-call reclaim and capacity eviction, the interval callback,
\* resetKey and resetAll, in any order.
StoreConfigs == [strategy : {"fixed"}, limit : {1}, windowInSeconds : Windows,
                 maxStoreSize : LruStoreSizes,
                 cleanupInterval : CleanupIntervals,
                 enablePerKeyStats : {TRUE}, maxBatchCleanup : ReclaimBatchCaps]

InitStore ==
    /\ now = Epoch
    /\ cfg \in StoreConfigs
    /\ opts = PlainOptions
    /\ InitStores
    /\ InitHistory
    /\ InitLimiter

NextStore ==
    \/ \E key \in Keys : MemoryDecision(key, MaxStoreCalls)
    \/ \E key \in Keys : StrategyDecision(key, MaxStoreCalls)
    \/ \E key \in Keys : FixedReset(key)
    \/ FixedResetAll
    \/ FixedGcFires
    \/ Tick

SpecStore == InitStore /\ [][NextStore]_vars

\* The nodes met from node id along next, at most n of them.
RECURSIVE ListFrom(_, _)
ListFrom(id, n) ==
    IF id = Null \/ id \notin DOMAIN nodes \/ n = 0 THEN <<>>
    ELSE <<id>> \o ListFrom(nodes[id].next, n - 1)

\* The recency list from lruHead.
LruList == ListFrom(lruHead, Cardinality(NodeIds) + 1)

\* C32: fixed-window store, in every reachable state: the keys on the
\* recency list are exactly the keys of the record map, each once; each
\* record's lruNode is its node on the list; prev and next agree, with
\* head.prev and tail.next null; head and tail are null exactly when the map
\* is empty.
C32_RecencyListMatchesMap ==
    LET l == LruList IN
    /\ (lruHead = Null) <=> (DOMAIN memoryStore = {})
    /\ (lruTail = Null) <=> (DOMAIN memoryStore = {})
    /\ Len(l) = Cardinality(DOMAIN memoryStore)
    /\ {nodes[l[i]].key : i \in 1..Len(l)} = DOMAIN memoryStore
    /\ \A i \in 1..Len(l) : memoryStore[nodes[l[i]].key].lruNode = l[i]
    /\ \A i \in 1..Len(l) :
          /\ nodes[l[i]].prev = (IF i = 1 THEN Null ELSE l[i - 1])
          /\ nodes[l[i]].next = (IF i = Len(l) THEN Null ELSE l[i + 1])
    /\ Len(l) > 0 => l[1] = lruHead /\ l[Len(l)] = lruTail

\* A record in the middle of a list of three was removed by resetKey: the
\* two that remain are linked to each other.
C32_Witness ==
    /\ last.op = "reset"
    /\ ~last.threw
    /\ Len(LruList) = 2
    /\ calls >= 3
    /\ last.key \notin DOMAIN memoryStore
    /\ lruHead # lruTail
    /\ nodes[lruHead].next = lruTail
    /\ {lruHead, lruTail} = {1, 3}

(***************************************************************************)
(* Reclaim in the fixed-window store: steps 1 and 2 of isAllowedMemory and *)
(* sweepExpiredKeys, with expiry entries left behind by resetKey.          *)
(***************************************************************************)
\* How many of the entries that a reclaim from S to R popped deleted nothing.
GhostsPopped(S, R) ==
    (Len(S.heap) - Len(R.heap))
        - Cardinality(DOMAIN S.memoryStore \ DOMAIN R.memoryStore)

\* await isAllowedMemory(key, limit, windowInSeconds, limiterConfig)
GhostDecision(key) ==
    /\ calls < MaxGhostCalls
    /\ LET r == isAllowedMemory(FW, key, cfg.limit, cfg, now) IN
       /\ Commit(r.S)
       /\ RecordDecision(key, r, key \notin DOMAIN memoryStore,
                         DOMAIN r.S.memoryStore, EvictionLog(r.S, now),
                         NoBefore, FALSE)
    /\ ghosts' = GhostsPopped(FW, InCallReclaim(FW, cfg, now))
    /\ UNCHANGED <<now, cfg, otherStores, limiterVars, instanceVars, lockVars,
                   resolved, grants, activated, inHeap, timerVars>>

\* The interval timer fires: sweepExpiredKeys(maxBatchCleanup) and the
\* capacity loop of the callback.
GhostSweep ==
    /\ LET S == fixedGcCallback(FW, cfg, now) IN
       /\ Commit(S)
       /\ History(recency, run, DOMAIN S.memoryStore)
       /\ last' = [NoOp EXCEPT !.op = "gc", !.at = now]
    /\ ghosts' = GhostsPopped(FW, ReclaimLoop(FW, now, cfg.maxBatchCleanup, 0))
    /\ UNCHANGED <<now, cfg, otherStores, wasReset, allowedAt, calls,
                   limiterVars, instanceVars, lockVars, resolved, grants,
                   activated, inHeap, timerVars>>

InitGhost ==
    /\ now = Epoch
    /\ cfg \in StoreConfigs
    /\ opts = PlainOptions
    /\ InitStores
    /\ InitHistory
    /\ InitLimiter

NextGhost ==
    \/ \E key \in Keys : GhostDecision(key)
    \/ \E key \in Keys : FixedReset(key)
    \/ GhostSweep
    \/ Tick

SpecGhost == InitGhost /\ [][NextGhost]_vars

\* The keys of store S on its recency list from node id, at most n of them.
RECURSIVE KeysFrom(_, _, _)
KeysFrom(S, id, n) ==
    IF id = Null \/ id \notin DOMAIN S.nodes \/ n = 0 THEN <<>>
    ELSE <<S.nodes[id].key>> \o KeysFrom(S, S.nodes[id].next, n - 1)

KeysOnList(S) == KeysFrom(S, S.lruHead, Cardinality(NodeIds) + 1)

\* What a reclaim that leaves the store as R may have done to the store.
ReclaimFrame(R) ==
    LET removed == DOMAIN memoryStore \ DOMAIN R.memoryStore IN
    /\ DOMAIN R.memoryStore \subseteq DOMAIN memoryStore
    /\ \A k \in removed :
          /\ memoryStore[k].expiresAt <= now
          /\ HeapEntries(R.heap, k, memoryStore[k].expiresAt)
                < HeapEntries(heap, k, memoryStore[k].expiresAt)
    /\ \A k \in DOMAIN R.memoryStore : R.memoryStore[k] = memoryStore[k]
    /\ R.perKeyStats = [k \in (DOMAIN perKeyStats) \ removed |-> perKeyStats[k]]
    /\ KeysOnList(R) = SelectSeq(KeysOnList(FW), LAMBDA k : k \notin removed)
    /\ removed = {} =>
          /\ Collect(R).nodes = nodes
          /\ R.lruHead = lruHead
          /\ R.lruTail = lruTail
          /\ R.hits = hits /\ R.rejections = rejections

\* C33: fixed-window reclaim (steps 1 and 2 of a call, and the background
\* sweep): a popped expiry entry whose key is absent, or whose expiresAt
\* differs from the record's, changes nothing in the record map, the recency
\* list and the per-key stats; a record is deleted only by a popped entry
\* equal to its expiresAt, hence only when expiresAt <= now.
C33_GhostEntriesDiscarded ==
    /\ ReclaimFrame(InCallReclaim(FW, cfg, now))
    /\ ReclaimFrame(ReclaimLoop(FW, now, cfg.maxBatchCleanup, 0))

\* The sweep popped the entry that a record left behind when it was reset,
\* while the key is stored again with a later expiry.
C33_Witness ==
    /\ last.op = "gc"
    /\ last.at = now
    /\ ghosts = 1
    /\ hits = 2
    /\ wasReset = {}
    /\ Len(heap) = 1
    /\ DOMAIN memoryStore = {heap[1].key}
    /\ memoryStore[heap[1].key].expiresAt = heap[1].expiresAt
    /\ heap[1].expiresAt > now

(***************************************************************************)
(* The capacity loop of the sliding-window and token-bucket strategies:    *)
(* while (store.size >= maxEntries) store.delete(store.keys().next().value)*)
(***************************************************************************)
\* The keys that the capacity loop deletes from the Map m, each beside the
\* key that the history names as least recently decided.
RECURSIVE MapEvictions(_, _)
MapEvictions(m, bound) ==
    IF Len(m) >= bound /\ Len(m) > 0
    THEN <<[victim |-> m[1].key, lru |-> LruOf(MapKeys(m)),
            choices |-> Len(m), live |-> TRUE]>>
         \o MapEvictions(Tail(m), bound)
    ELSE <<>>

\* The Map of the configured strategy.
StrategyStore ==
    IF cfg.strategy = "sliding" THEN slidingWindowStore ELSE tokenBucketStore

\* await strategy.isAllowed(key), strategy a SlidingWindowStrategy or a
\* TokenBucketStrategy
FifoCall(key) ==
    /\ calls < MaxFifoCalls
    /\ LET r == strategyIsAllowed(Shared, key, cfg, now) IN
       /\ Install(r.st)
       /\ RecordDecision(key, r, FoundFresh(key), StoredIn(r.st),
                         MapEvictions(StrategyStore, cfg.maxStoreSize),
                         NoBefore, FALSE)
    /\ UNCHANGED <<now, cfg, limiterVars, instanceVars, lockVars, probeVars>>

FifoConfigs == [strategy : {"sliding", "tokenBucket"}, limit : {2},
                windowInSeconds : Windows, maxStoreSize : {3},
                cleanupInterval : CleanupIntervals,
                enablePerKeyStats : {TRUE}, maxBatchCleanup : BatchCaps]

InitFifo ==
    /\ now = Epoch
    /\ cfg \in FifoConfigs
    /\ opts = PlainOptions
    /\ InitStores
    /\ InitHistory
    /\ InitLimiter

NextFifo ==
    \/ \E key \in Keys : FifoCall(key)
    \/ Tick

SpecFifo == InitFifo /\ [][NextFifo]_vars

\* C34: sliding window and token bucket: when a call finds the store at
\* maxStoreSize, the key that is evicted is the one whose last decision is
\* the oldest among the keys stored.
C34_MapVictimIsLeastRecent ==
    Decided /\ cfg.strategy \in {"sliding", "tokenBucket"}
    => \A i \in 1..Len(last.evicted) :
          last.evicted[i].victim = last.evicted[i].lru

(***************************************************************************)
(* Capacity enforcement and the key that is being decided (Spec).          *)
(***************************************************************************)
\* A step is a decision for a valid key that did not throw.
DecisionStep ==
    /\ calls' = calls + 1
    /\ last'.op = "isAllowed"
    /\ last'.key \in Keys
    /\ ~last'.threw

\* The decision that the state of key, as the call finds it, calls for; key
\* is stored.
DueDecision(key) ==
    IF cfg.strategy = "fixed"
    THEN memoryStore[key].count < cfg.limit
    ELSE IF cfg.strategy = "sliding"
    THEN Len(SelectSeq(MapGet(slidingWindowStore, key).timestamps,
                       LAMBDA ts : ts > now - windowMs(cfg))) < cfg.limit
    ELSE LET entry == MapGet(tokenBucketStore, key)
         IN Min(entry.capacity * windowMs(cfg),
                entry.tokens + (now - entry.lastRefill) * entry.refillRate)
               >= windowMs(cfg)

\* The record of key is stored and live when the call starts.
LiveRecord(key) ==
    IF cfg.strategy = "fixed"
    THEN key \in DOMAIN memoryStore /\ memoryStore[key].expiresAt > now
    ELSE IF cfg.strategy = "sliding"
    THEN /\ MapHas(slidingWindowStore, key)
         /\ \E i \in DOMAIN MapGet(slidingWindowStore, key).timestamps :
               MapGet(slidingWindowStore, key).timestamps[i] > now - windowMs(cfg)
    ELSE MapHas(tokenBucketStore, key)

\* C35: for each strategy, a decision for a key whose record is stored and
\* live when the call starts is made against that record (fixed: allowed iff
\* count < limit), also when the store is at maxStoreSize and the key is the
\* eviction candidate.
C35_OwnRecordSurvivesCapacity ==
    [][ DecisionStep /\ LiveRecord(last'.key)
        => (last'.allowed <=> DueDecision(last'.key)) ]_vars

(***************************************************************************)
(* isAllowedMemory with the capacity loop of step 3 taken one iteration at *)
(* a time.  The loops run between acquireLock and unlock without a         *)
(* suspension point, so nothing else runs while a call is in its loop.     *)
(***************************************************************************)
\* config.maxStoreSize as isAllowedMemory receives it: 0 passes
\* validateConfig, which checks truthy values only, and the destructuring
\* default replaces undefined only; a caller of isAllowedMemory can pass any
\* number.
LoopStoreSizes == {-1, 0, 1, 2}
LoopConfigs == [strategy : {"fixed"}, limit : {1}, windowInSeconds : Windows,
                maxStoreSize : LoopStoreSizes,
                cleanupInterval : CleanupIntervals,
                enablePerKeyStats : {TRUE}, maxBatchCleanup : BatchCaps]

\* The call whose steps are taken one at a time.
TheCall == 1

\* isAllowedMemory(key, ...) up to step 3: callCount++, steps 1 and 2.
LoopStart(key) ==
    /\ calls < MaxLoopCalls
    /\ pc[TheCall] \in {"idle", "done"}
    /\ Commit(InCallReclaim(FW, cfg, now))
    /\ History(recency, run, DOMAIN memoryStore')
    /\ pc' = [pc EXCEPT ![TheCall] = "capping"]
    /\ call' = [call EXCEPT ![TheCall] = [NoCall EXCEPT !.key = key]]
    /\ UNCHANGED <<now, cfg, opts, stats, lockQueue, otherStores, wasReset,
                   allowedAt, last, calls, issuedAt, concurrent, hookCalls,
                   resets, given, built, instanceVars, lockVars, probeVars>>

\* while (memoryStore.size >= maxStoreSize): the condition
LoopContinues ==
    /\ pc[TheCall] = "capping"
    /\ Cardinality(DOMAIN memoryStore) >= cfg.maxStoreSize

\* One iteration of step 3: removeLruTail()
LoopIterate ==
    /\ LoopContinues
    /\ Commit(removeLruTail(FW))
    /\ History(recency, run, DOMAIN memoryStore')
    /\ UNCHANGED <<now, cfg, opts, stats, pc, call, lockQueue, otherStores,
                   wasReset, allowedAt, last, calls, issuedAt, concurrent,
                   hookCalls, resets, given, built, instanceVars, lockVars,
                   probeVars>>

\* The loop condition is false: step 4, and the call returns.
LoopExit ==
    /\ pc[TheCall] = "capping"
    /\ ~LoopContinues
    /\ LET key == call[TheCall].key
           r == ProcessKey(FW, key, cfg.limit, cfg, now)
       IN /\ Commit(r.S)
          /\ RecordDecision(key, r, key \notin DOMAIN memoryStore,
                            DOMAIN r.S.memoryStore, <<>>, NoBefore, FALSE)
          /\ call' = [call EXCEPT ![TheCall].allowed = r.allowed,
                                  ![TheCall].outcome = "returned"]
    /\ pc' = [pc EXCEPT ![TheCall] = "done"]
    /\ UNCHANGED <<now, cfg, opts, stats, lockQueue, otherStores, issuedAt,
                   concurrent, hookCalls, resets, given, built, instanceVars,
                   lockVars, probeVars>>

\* Time passes between calls.
LoopTick ==
    /\ pc[TheCall] # "capping"
    /\ Tick

InitLoop ==
    /\ now = Epoch
    /\ cfg \in LoopConfigs
    /\ opts = PlainOptions
    /\ InitStores
    /\ InitHistory
    /\ InitLimiter

NextLoop ==
    \/ \E key \in Keys : LoopStart(key)
    \/ LoopIterate
    \/ LoopExit
    \/ LoopTick

SpecLoop == InitLoop /\ [][NextLoop]_vars

\* C36: every decision terminates.  An iteration of the capacity loop
\* changes the state only by removing the tail of the recency list, so the
\* loop ends exactly if its condition never holds with an empty list: then
\* every iteration shrinks the store (the reclaim loops pop one heap entry
\* per iteration and end with the heap).
C36_CapacityLoopEnds ==
    LoopContinues => lruTail # Null

(***************************************************************************)
(* The expiry heap by itself: any sequence of heapPush and heapPop.        *)
(***************************************************************************)
\* heapPush(node)
HeapPushes(node) ==
    /\ Len(heap) < MaxHeapLen
    /\ heap' = heapPush(heap, node)
    /\ inHeap' = [inHeap EXCEPT ![node] = @ + 1]
    /\ last' = [NoOp EXCEPT !.op = "heapPush", !.key = node.key,
                            !.at = node.expiresAt]
    /\ UNCHANGED <<now, cfg, memoryStore, hits, rejections, callCount, nodes,
                   lruHead, lruTail, perKeyStats, otherStores, recency, run,
                   wasReset, allowedAt, calls, limiterVars, instanceVars,
                   lockVars, resolved, grants, activated, ghosts, timerVars>>

\* heapPop() on a heap that is not empty: it returns heap[0]
HeapPops ==
    /\ Len(heap) > 0
    /\ heap' = heapPop(heap)
    /\ inHeap' = [inHeap EXCEPT ![heap[1]] = @ - 1]
    /\ last' = [NoOp EXCEPT !.op = "heapPop", !.key = heap[1].key,
                            !.at = heap[1].expiresAt]
    /\ UNCHANGED <<now, cfg, memoryStore, hits, rejections, callCount, nodes,
                   lruHead, lruTail, perKeyStats, otherStores, recency, run,
                   wasReset, allowedAt, calls, limiterVars, instanceVars,
                   lockVars, resolved, grants, activated, ghosts, timerVars>>

InitHeap ==
    /\ now = Epoch
    /\ cfg \in {c \in Configs : c.strategy = "fixed" /\ c.limit = 1
                                 /\ c.maxStoreSize = 1}
    /\ opts = PlainOptions
    /\ InitStores
    /\ InitHistory
    /\ InitLimiter

NextHeap ==
    \/ \E node \in HeapNodes : HeapPushes(node)
    \/ HeapPops

SpecHeap == InitHeap /\ [][NextHeap]_vars

\* C37: expiry heap, after any sequence of heapPush and heapPop: every
\* parent's expiresAt is <= its children's, so heap[0] has a minimal
\* expiresAt; the entry heapPop returned is no later than any entry left;
\* the entries on the heap are the pushed ones minus the popped ones.
C37_HeapOrderAndContent ==
    /\ \A i \in 2..Len(heap) :
          heap[((i - 2) \div 2) + 1].expiresAt <= heap[i].expiresAt
    /\ \A i \in 1..Len(heap) : heap[1].expiresAt <= heap[i].expiresAt
    /\ last.op = "heapPop" =>
          \A i \in 1..Len(heap) : last.at <= heap[i].expiresAt
    /\ \A e \in HeapNodes : HeapEntries(heap, e.key, e.expiresAt) = inHeap[e]

\* A pop left four entries that are not in sorted order as an array.
C37_Witness ==
    /\ last.op = "heapPop"
    /\ Len(heap) = 4
    /\ heap[2].expiresAt > heap[3].expiresAt
    /\ heap[4].expiresAt > heap[3].expiresAt
    /\ last.at < heap[1].expiresAt

\* C38: fixed-window store, in every reachable state: each record in the map
\* has at least one entry on the heap with its key and its expiresAt.
C38_RecordHasExpiryEntry ==
    \A k \in DOMAIN memoryStore :
        HeapEntries(heap, k, memoryStore[k].expiresAt) >= 1

\* A record that was refreshed, beside the entry of its first window, and a
\* second record, each with its entry on the heap.
C38_Witness ==
    /\ Cardinality(DOMAIN memoryStore) >= 2
    /\ Len(heap) > Cardinality(DOMAIN memoryStore)
    /\ \E k \in DOMAIN memoryStore :
          /\ HeapEntries(heap, k, memoryStore[k].expiresAt) = 1
          /\ \E i \in DOMAIN heap :
                heap[i].key = k /\ heap[i].expiresAt < memoryStore[k].expiresAt

(***************************************************************************)
(* The interval timers of the strategy instances of one module.  Each      *)
(* strategy module keeps one `let gcInterval`; a timer is named by the     *)
(* instance whose constructor started it.                                  *)
(***************************************************************************)
Instances == 1..MaxInstances

\* new XStrategy(config): the constructor ends with this.startGC()
NewStrategy(i) ==
    /\ i \notin timers.constructed
    /\ \A j \in Instances : j < i => j \in timers.constructed
    /\ gcInterval' = i
    /\ timers' = [timers EXCEPT !.constructed = @ \cup {i},
                                !.gcStarted = @ \cup {i},
                                !.active = @ \cup {i},
                                !.fired = Null]
    /\ UNCHANGED <<now, cfg, fwVars, otherStores, histVars, limiterVars,
                   instanceVars, lockVars, resolved, grants, activated, ghosts,
                   inHeap>>

\* instance.stopGC(): if (gcInterval) clearInterval(gcInterval)
StopGC(i) ==
    /\ i \in timers.constructed
    /\ timers' = [timers EXCEPT !.active = @ \ {gcInterval},
                                !.gcStarted = @ \ {i},
                                !.stopped = @ \cup {i},
                                !.fired = Null]
    /\ UNCHANGED <<now, cfg, fwVars, otherStores, histVars, limiterVars,
                   instanceVars, lockVars, resolved, grants, activated, ghosts,
                   inHeap, gcInterval>>

\* The interval timer that instance i started fires.
TimerFires(i) ==
    /\ i \in timers.active
    /\ Install(strategySweep(Shared, cfg, now))
    /\ timers' = [timers EXCEPT !.fired = i]
    /\ UNCHANGED <<now, cfg, histVars, limiterVars, instanceVars, lockVars,
                   resolved, grants, activated, ghosts, inHeap, gcInterval>>

InitTimers ==
    /\ now = Epoch
    /\ cfg \in {c \in Configs : c.limit = 1}
    /\ opts = PlainOptions
    /\ InitStores
    /\ InitHistory
    /\ InitLimiter

NextTimers ==
    \/ \E i \in Instances : NewStrategy(i)
    \/ \E i \in Instances : StopGC(i)
    \/ \E i \in Instances : TimerFires(i)

SpecTimers == InitTimers /\ [][NextTimers]_vars

\* C39: stopGC() on an instance cancels exactly the timer that this instance
\* started: the timer of a constructed instance is active exactly while the
\* instance has not been stopped, so that a stopped instance's sweep does not
\* fire, the others' keep firing, and no timer is active once every
\* constructed instance has been stopped.
C39_StopCancelsOwnTimer ==
    /\ \A i \in timers.constructed :
          (i \in timers.active) <=> (i \notin timers.stopped)
    /\ timers.fired \notin timers.stopped

(***************************************************************************)
(* Fixed window across window seams.  allowedAt keeps, per key, the times  *)
(* of its allowances in the closed interval [now - W, now] since the key   *)
(* was last evicted.                                                       *)
(***************************************************************************)
\* The keys that the capacity loop removed on the way to the store S.
Victims(S) == {S.evicted[i].victim : i \in 1..Len(S.evicted)}

\* await isAllowedMemory(key, limit, windowInSeconds, limiterConfig)
SeamCall(key) ==
    /\ calls < MaxSeamCalls
    /\ LET r == isAllowedMemory(FW, key, cfg.limit, cfg, now)
           kept == [k \in Keys |-> IF k \in Victims(r.S) THEN <<>>
                                   ELSE allowedAt[k]]
       IN /\ Commit(r.S)
          /\ History(<<key>> \o SeqWithout(recency, key),
                     [run EXCEPT ![key] =
                         IF key \notin DOMAIN memoryStore
                         THEN [first |-> now, n |-> 1, afterReset |-> FALSE]
                         ELSE [@ EXCEPT !.n = @ + 1]],
                     DOMAIN r.S.memoryStore)
          /\ allowedAt' = [kept EXCEPT ![key] =
                              IF r.allowed THEN Append(@, now) ELSE @]
          /\ last' = [NoOp EXCEPT !.op = "isAllowed", !.key = key,
                                  !.allowed = r.allowed, !.at = now,
                                  !.evicted = EvictionLog(r.S, now)]
    /\ calls' = calls + 1
    /\ UNCHANGED <<now, cfg, otherStores, wasReset, limiterVars, instanceVars,
                   lockVars, probeVars>>

\* Time passes.
SeamTick ==
    /\ now < Epoch + MaxSeamTicks * TickMs
    /\ now' = now + TickMs
    /\ allowedAt' = [k \in Keys |->
                        SelectSeq(allowedAt[k],
                                  LAMBDA t : t >= now' - windowMs(cfg))]
    /\ UNCHANGED <<cfg, fwVars, otherStores, recency, run, wasReset, last,
                   calls, limiterVars, instanceVars, lockVars, probeVars>>

SeamConfigs == [strategy : {"fixed"}, limit : Limits, windowInSeconds : Windows,
                maxStoreSize : LruStoreSizes,
                cleanupInterval : CleanupIntervals,
                enablePerKeyStats : {TRUE}, maxBatchCleanup : BatchCaps]

InitSeam ==
    /\ now = Epoch
    /\ cfg \in SeamConfigs
    /\ opts = PlainOptions
    /\ InitStores
    /\ InitHistory
    /\ InitLimiter

NextSeam ==
    \/ \E key \in CallKeys : SeamCall(key)
    \/ SeamTick

SpecSeam == InitSeam /\ [][NextSeam]_vars

\* C40: fixed window, static limit L, for a key that is neither reset nor
\* evicted: the key's allowances in any interval of length W are at most 2L.
C40_AtMostTwiceLimit ==
    \A k \in Keys : Len(allowedAt[k]) <= 2 * cfg.limit

\* L = 2: the two allowances of one window and the two of the next, the
\* first and the last of them W apart.
C40_Witness ==
    /\ cfg.limit = 2
    /\ last.op = "isAllowed"
    /\ last.allowed
    /\ Len(allowedAt[last.key]) = 4
    /\ allowedAt[last.key][1] = now - windowMs(cfg)
    /\ allowedAt[last.key][2] > allowedAt[last.key][1]
    /\ allowedAt[last.key][4] = now

=============================================================================
